---- MODULE Spec2Model ----
(***************************************************************************)
(* A model of migratiorm: the SQL normalizer (internal/normalizer), the    *)
(* query comparator (internal/comparator) and the calls that drive them.   *)
(*                                                                         *)
(* Query text is a sequence of one-character strings, so that every stage  *)
(* of the normalizer works on characters as the Go code does.  The regular *)
(* expressions of the source are values (sequences of items), matched with *)
(* the leftmost-first semantics of Go's regexp package.                    *)
(***************************************************************************)
EXTENDS Integers, Sequences, FiniteSets, TLC

VARIABLES
  pc,        \* position of the driver: which call has been made
  options,   \* normalizer.Options of the Normalizer under test
  input,     \* the parts the query text is written from
  query,     \* the text passed to Normalize
  result,    \* what the first call returned
  result2,   \* what the second call returned
  expected,  \* comparator input: canonical strings of the expected side
  actual,    \* comparator input: canonical strings of the actual side
  mode,      \* comparator.CompareMode
  cmp,       \* CompareResult of the last Compare
  queries,   \* capturingDriver.queries of the capturer in use
  mu,        \* capturingDriver.mu: "free", or the goroutine that holds it
  driverCounter,  \* the package variable driverCounter
  drivers,   \* the names passed to sql.Register, in the order of the calls
  failed,    \* for each assertion made: was IgnoreOrder passed, was t.Error called
  procs      \* the goroutines that run queries: position and locals of each

\* the state of the capture and of the test the comparison reports to
capture == <<queries, mu, driverCounter, drivers, failed, procs>>

vars == <<pc, options, input, query, result, result2, expected, actual, mode, cmp,
          queries, mu, driverCounter, drivers, failed, procs>>

\* nothing has been captured, registered or asserted
NoCapture ==
  /\ queries = <<>> /\ mu = "free" /\ driverCounter = 0 /\ drivers = <<>>
  /\ failed = <<>> /\ procs = <<>>

-----------------------------------------------------------------------------
(* Characters.                                                             *)

\* The backtick cannot be written inside a TLA+ string: it is the character BT.
BT == "BACKTICK"

Lower == <<"a","b","c","d","e","f","g","h","i","j","k","l","m","n","o","p","q","r","s","t","u","v","w","x","y","z">>
Upper == <<"A","B","C","D","E","F","G","H","I","J","K","L","M","N","O","P","Q","R","S","T","U","V","W","X","Y","Z">>
Digit == <<"0","1","2","3","4","5","6","7","8","9">>

\* The characters of the model in byte order (Go compares strings bytewise).
Ascii ==
  <<"\t","\n"," ","!","\"","#","$","%","&","'","(",")","*","+",",","-",".","/","0","1","2","3","4","5","6","7","8","9",":",";","<","=",">","?","@","A","B","C","D","E","F","G","H","I","J","K","L","M","N","O","P","Q","R","S","T","U","V","W","X","Y","Z","[","\\","]","^","_",BT,"a","b","c","d","e","f","g","h","i","j","k","l","m","n","o","p","q","r","s","t","u","v","w","x","y","z","{","|","}","~">>

Range(f) == {f[k] : k \in DOMAIN f}

\* regexp/syntax: \w is [0-9A-Za-z_], \s is [\t\n\f\r ], \d is [0-9].
WordCh == Range(Lower) \cup Range(Upper) \cup Range(Digit) \cup {"_"}
SpaceCh == {" ", "\t", "\n", "\r", "\f"}
DigitCh == Range(Digit)

Ord(c) == CHOOSE k \in DOMAIN Ascii : Ascii[k] = c

ToUpperCh(c) == IF \E k \in DOMAIN Lower : Lower[k] = c
                THEN Upper[CHOOSE k \in DOMAIN Lower : Lower[k] = c]
                ELSE c

ToLowerCh(c) == IF \E k \in DOMAIN Upper : Upper[k] = c
                THEN Lower[CHOOSE k \in DOMAIN Upper : Upper[k] = c]
                ELSE c

\* strings.ToUpper
ToUpper(s) == [k \in DOMAIN s |-> ToUpperCh(s[k])]

\* The < of Go strings: bytewise lexicographic order.
RECURSIVE StrLess(_, _)
StrLess(a, b) ==
  IF b = <<>> THEN FALSE
  ELSE IF a = <<>> THEN TRUE
  ELSE IF Head(a) = Head(b) THEN StrLess(Tail(a), Tail(b))
  ELSE Ord(Head(a)) < Ord(Head(b))

\* strings.TrimSpace (on the characters of the model): s from its first to
\* its last character that is not white space.
trimTo(s, ks) ==
  IF ks = {} THEN <<>>
  ELSE SubSeq(s, CHOOSE k \in ks : \A j \in ks : k <= j,
                 CHOOSE k \in ks : \A j \in ks : k >= j)

TrimSpace(s) == trimTo(s, {k \in DOMAIN s : s[k] \notin SpaceCh})

\* strings.Index: the first position at which sub occurs in s, 0 when none.
firstOf(hits) == IF hits = {} THEN 0 ELSE CHOOSE k \in hits : \A j \in hits : k <= j

IndexFrom(s, sub, from) ==
  firstOf({k \in from..(Len(s) - Len(sub) + 1) : SubSeq(s, k, k + Len(sub) - 1) = sub})

Index(s, sub) == IndexFrom(s, sub, 1)

\* strings.Contains
Contains(s, sub) == Index(s, sub) # 0

\* strings.Join
RECURSIVE Join(_, _)
Join(parts, sep) ==
  IF parts = <<>> THEN <<>>
  ELSE IF Len(parts) = 1 THEN parts[1]
  ELSE parts[1] \o sep \o Join(Tail(parts), sep)

\* The pieces of s between the positions of cuts (a set of positions of s).
PiecesAt(s, cuts) ==
  LET nth(n) == IF n = 0 THEN 0
                ELSE IF n > Cardinality(cuts) THEN Len(s) + 1
                ELSE CHOOSE c \in cuts : Cardinality({d \in cuts : d < c}) = n - 1
  IN [n \in 1..(Cardinality(cuts) + 1) |-> SubSeq(s, nth(n - 1) + 1, nth(n) - 1)]

\* strings.Split(s, sep) for a one-character separator.
Split(s, sep) == PiecesAt(s, {k \in DOMAIN s : s[k] = sep})

-----------------------------------------------------------------------------
(* Regular expressions (Go regexp: leftmost-first).  An expression is a    *)
(* sequence of items: a literal, a repeated character class, the start or  *)
(* the end of a group, a word boundary, the end of the text, or a choice   *)
(* between expressions.  The patterns of the program repeat only character *)
(* classes.                                                                *)

NumGroups == 4

Set(cs) == <<[t |-> "rep", cs |-> cs, neg |-> FALSE, min |-> 1, max |-> 1, greedy |-> TRUE]>>
Ch(c) == <<[t |-> "lit", w |-> <<c>>, fold |-> FALSE]>>
NotSet(cs) == <<[t |-> "rep", cs |-> cs, neg |-> TRUE, min |-> 1, max |-> 1, greedy |-> TRUE]>>
RECURSIVE Cat(_)
Cat(rs) == IF rs = <<>> THEN <<>> ELSE Head(rs) \o Cat(Tail(rs))
Alt(rs) == <<[t |-> "alt", alts |-> rs]>>
Plus(r) == <<[r[1] EXCEPT !.min = 1, !.max = -1, !.greedy = TRUE]>>
Star(r) == <<[r[1] EXCEPT !.min = 0, !.max = -1, !.greedy = TRUE]>>
PlusLazy(r) == <<[r[1] EXCEPT !.min = 1, !.max = -1, !.greedy = FALSE]>>
StarLazy(r) == <<[r[1] EXCEPT !.min = 0, !.max = -1, !.greedy = FALSE]>>
Opt(r) == Alt(<<r, <<>>>>)
Grp(n, r) == <<[t |-> "open", n |-> n]>> \o r \o <<[t |-> "close", n |-> n]>>
WordB == <<[t |-> "wb"]>>
EndText == <<[t |-> "eot"]>>
Lit(w) == <<[t |-> "lit", w |-> w, fold |-> FALSE]>>
\* a literal under (?i)
ILit(w) == <<[t |-> "lit", w |-> w, fold |-> TRUE]>>
S1 == Plus(Set(SpaceCh))       \* \s+
S0 == Star(Set(SpaceCh))       \* \s*
W1 == Plus(Set(WordCh))        \* \w+
Dot == NotSet({"\n"})          \* .

NoMatch == [ok |-> FALSE]
NoCaps == [g \in 1..NumGroups |-> <<1, 1>>]

\* the positions between the characters of s
Positions(s) == 1..(Len(s) + 1)

IsWordAt(s, i) == i >= 1 /\ i <= Len(s) /\ s[i] \in WordCh

\* the literal of item it is written in s at position p
LitAt(it, s, p) ==
  /\ p >= 1 /\ p + Len(it.w) <= Len(s) + 1
  /\ \A k \in DOMAIN it.w :
       IF it.fold THEN ToUpperCh(s[p + k - 1]) = ToUpperCh(it.w[k])
       ELSE s[p + k - 1] = it.w[k]

\* the characters of s from position p up to q are all in the class of it,
\* and as many as it allows
RunAt(it, s, p, q) ==
  /\ p >= 1 /\ q - p >= it.min /\ (it.max < 0 \/ q - p <= it.max)
  /\ \A m \in p..(q - 1) : (s[m] \in it.cs) # it.neg

\* where the run of characters of the class of it that ends before q begins
runStart(it, s, q) ==
  CHOOSE p \in 1..q :
    /\ \A m \in p..(q - 1) : (s[m] \in it.cs) # it.neg
    /\ p = 1 \/ ~((s[p - 1] \in it.cs) # it.neg)

\* The positions of s from which the expression re can be matched so as to
\* end at a position of next: CanList has, before each item of re, the
\* positions from which the items from there on can be, and next at its end.
RECURSIVE CanList(_, _, _)
RECURSIVE canBefore(_, _, _, _)
RECURSIVE stepBack(_, _, _)

stepBack(it, s, next) ==
  CASE it.t = "lit" -> {q - Len(it.w) : q \in {q \in next : LitAt(it, s, q - Len(it.w))}}
    [] it.t = "rep" ->
         UNION {{p \in runStart(it, s, q)..(q - it.min) : it.max < 0 \/ q - p <= it.max} :
                  q \in next}
    [] it.t \in {"open", "close"} -> next
    [] it.t = "wb" -> {p \in next : IsWordAt(s, p - 1) # IsWordAt(s, p)}
    [] it.t = "eot" -> next \cap {Len(s) + 1}
    [] it.t = "alt" -> UNION {Head(CanList(it.alts[a], s, next)) : a \in DOMAIN it.alts}

canBefore(re, s, j, acc) ==
  IF Len(acc) > 0 /\ j = 0 THEN acc
  ELSE canBefore(re, s, j - 1, <<stepBack(re[j], s, Head(acc))>> \o acc)

CanList(re, s, next) == canBefore(re, s, Len(re), <<next>>)

\* the largest and the smallest of a set of positions
Last(ps) == CHOOSE p \in ps : \A q \in ps : q <= p
First(ps) == CHOOSE p \in ps : \A q \in ps : p <= q

\* Follow(re, cans, s, j, p, caps): the match Go prefers of the items of re
\* from the j-th on, from position p, where cans = CanList(re, s, next) and
\* p is in cans[j]: a greedy repetition takes the longest run from which the
\* rest can be matched, a lazy one the shortest, and a choice its first
\* alternative from which the rest can be matched.
RECURSIVE Follow(_, _, _, _, _, _)
RECURSIVE followFrom(_, _, _, _, _)

followFrom(re, cans, s, j, m) == Follow(re, cans, s, j, m.end, m.caps)

Follow(re, cans, s, j, p, caps) ==
  IF p >= 1 /\ j > Len(re) THEN [ok |-> TRUE, end |-> p, caps |-> caps]
  ELSE
    CASE re[j].t = "lit" -> Follow(re, cans, s, j + 1, p + Len(re[j].w), caps)
      [] re[j].t = "rep" /\ re[j].greedy ->
           Follow(re, cans, s, j + 1, Last({q \in cans[j + 1] : RunAt(re[j], s, p, q)}), caps)
      [] re[j].t = "rep" /\ ~re[j].greedy ->
           Follow(re, cans, s, j + 1, First({q \in cans[j + 1] : RunAt(re[j], s, p, q)}), caps)
      [] re[j].t = "open" ->
           Follow(re, cans, s, j + 1, p, [caps EXCEPT ![re[j].n] = <<p, p>>])
      [] re[j].t = "close" ->
           Follow(re, cans, s, j + 1, p, [caps EXCEPT ![re[j].n] = <<@[1], p>>])
      [] re[j].t \in {"wb", "eot"} -> Follow(re, cans, s, j + 1, p, caps)
      [] re[j].t = "alt" ->
           followFrom(re, cans, s, j + 1,
             Follow(re[j].alts[First({a \in DOMAIN re[j].alts :
                                         p \in Head(CanList(re[j].alts[a], s, cans[j + 1]))})],
                    CanList(re[j].alts[First({a \in DOMAIN re[j].alts :
                                         p \in Head(CanList(re[j].alts[a], s, cans[j + 1]))})],
                            s, cans[j + 1]),
                    s, 1, p, caps))

\* The leftmost match of re in s that starts at or after position from,
\* given cans = CanList(re, s, Positions(s)).
startsFrom(cans, from) == {p \in Head(cans) : p >= from}

matchAt(re, cans, s, start, m) ==
  [ok |-> TRUE, start |-> start, end |-> m.end, caps |-> m.caps]

FirstFrom(re, cans, s, from) ==
  IF startsFrom(cans, from) = {} THEN NoMatch
  ELSE matchAt(re, cans, s, First(startsFrom(cans, from)),
               Follow(re, cans, s, 1, First(startsFrom(cans, from)), NoCaps))

\* The leftmost match of re in s.
Find(re, s) == FirstFrom(re, CanList(re, s, Positions(s)), s, 1)

\* Regexp.MatchString
MatchString(re, s) == Head(CanList(re, s, Positions(s))) # {}

\* The text of group g of match m of s ("" for a group that took no part).
Group(s, m, g) == SubSeq(s, m.caps[g][1], m.caps[g][2] - 1)

\* Regexp.NumSubexp: the number of groups of an expression.
RECURSIVE NumSubexp(_)
RECURSIVE SumSubexp(_)
SumSubexp(rs) == IF rs = <<>> THEN 0 ELSE NumSubexp(Head(rs)) + SumSubexp(Tail(rs))
NumSubexp(re) ==
  IF re = <<>> THEN 0
  ELSE (CASE Head(re).t = "open" -> 1
          [] Head(re).t = "alt" -> SumSubexp(Head(re).alts)
          [] OTHER -> 0) + NumSubexp(Tail(re))

\* Regexp.FindStringSubmatch: <<>> (nil) when there is no match, else the
\* whole match followed by the text of each group.
groupTexts(re, s, m) ==
  IF ~m.ok THEN <<>>
  ELSE <<SubSeq(s, m.start, m.end - 1)>> \o [g \in 1..NumSubexp(re) |-> Group(s, m, g)]

FindStringSubmatch(re, s) == groupTexts(re, s, Find(re, s))

\* All successive non-overlapping matches, as Regexp.ReplaceAll* finds them.
\* (No pattern of the program matches the empty string.)
RECURSIVE AllFrom(_, _, _, _)
RECURSIVE allAfter(_, _, _, _)

allAfter(re, cans, s, m) ==
  IF ~m.ok THEN <<>>
  ELSE <<m>> \o AllFrom(re, cans, s, IF m.end > m.start THEN m.end ELSE m.end + 1)

AllFrom(re, cans, s, from) == allAfter(re, cans, s, FirstFrom(re, cans, s, from))

FindAll(re, s) == AllFrom(re, CanList(re, s, Positions(s)), s, 1)

\* Expansion of a replacement template: "$1".."$4" stand for the groups.
RECURSIVE Expand(_, _, _)
Expand(tmpl, s, m) ==
  IF tmpl = <<>> THEN <<>>
  ELSE (CASE Head(tmpl) = "$1" -> Group(s, m, 1)
          [] Head(tmpl) = "$2" -> Group(s, m, 2)
          [] Head(tmpl) = "$3" -> Group(s, m, 3)
          [] Head(tmpl) = "$4" -> Group(s, m, 4)
          [] OTHER -> <<Head(tmpl)>>) \o Expand(Tail(tmpl), s, m)

\* s with the k-th match of ms replaced by repls[k].
RECURSIVE Splice(_, _, _, _)
Splice(s, ms, repls, pos) ==
  IF ms = <<>> THEN SubSeq(s, pos, Len(s))
  ELSE SubSeq(s, pos, Head(ms).start - 1) \o Head(repls)
         \o Splice(s, Tail(ms), Tail(repls), Head(ms).end)

expandAll(s, ms, tmpl) == Splice(s, ms, [k \in DOMAIN ms |-> Expand(tmpl, s, ms[k])], 1)

\* Regexp.ReplaceAllString
ReplaceAllString(re, s, tmpl) == expandAll(s, FindAll(re, s), tmpl)

matchTexts(s, ms) == [k \in DOMAIN ms |-> SubSeq(s, ms[k].start, ms[k].end - 1)]

\* The texts of the successive matches of re in s, which
\* Regexp.ReplaceAllStringFunc hands to its function one by one.
MatchTexts(re, s) == matchTexts(s, FindAll(re, s))

\* Regexp.ReplaceAllStringFunc, given what the function returned for each match
ReplaceAllStringFunc(re, s, repls) == Splice(s, FindAll(re, s), repls, 1)

-----------------------------------------------------------------------------
(* internal/normalizer: the stages.                                        *)

\* normalizeWhitespace: \s+ -> " "
normalizeWhitespace(q) == ReplaceAllString(S1, q, <<" ">>)

\* removeComments: --[^\n]* -> "", then /\*[\s\S]*?\*/ -> ""
reLineComment == Cat(<<Lit(<<"-","-">>), Star(NotSet({"\n"}))>>)
reBlockComment == Cat(<<Lit(<<"/","*">>), StarLazy(NotSet({})), Lit(<<"*","/">>)>>)

removeComments(q) ==
  ReplaceAllString(reBlockComment, ReplaceAllString(reLineComment, q, <<>>), <<>>)

\* BT([^BT]+)BT, "([^"]+)", \[([^\]]+)\]   (BT the backtick)
reBacktick == Cat(<<Ch(BT), Grp(1, Plus(NotSet({BT}))), Ch(BT)>>)
reDoubleQuote == Cat(<<Ch("\""), Grp(1, Plus(NotSet({"\""}))), Ch("\"")>>)
reBracket == Cat(<<Ch("["), Grp(1, Plus(NotSet({"]"}))), Ch("]")>>)

\* removeQuotes: each style in turn replaced by its group 1.
removeQuotes(q) ==
  ReplaceAllString(reBracket,
    ReplaceAllString(reDoubleQuote,
      ReplaceAllString(reBacktick, q, <<"$1">>), <<"$1">>), <<"$1">>)

\* unifyPlaceholders: \$\d+, then :(\w+), then @(\w+), each -> "?"
rePositional == Cat(<<Ch("$"), Plus(Set(DigitCh))>>)
reNamed == Cat(<<Ch(":"), Grp(1, W1)>>)
reAtNamed == Cat(<<Ch("@"), Grp(1, W1)>>)

unifyPlaceholders(q) ==
  ReplaceAllString(reAtNamed,
    ReplaceAllString(reNamed,
      ReplaceAllString(rePositional, q, <<"?">>), <<"?">>), <<"?">>)

sqlKeywords ==
  <<
    <<"S","E","L","E","C","T">>,
    <<"F","R","O","M">>,
    <<"W","H","E","R","E">>,
    <<"A","N","D">>,
    <<"O","R">>,
    <<"N","O","T">>,
    <<"I","N">>,
    <<"I","S">>,
    <<"N","U","L","L">>,
    <<"I","N","S","E","R","T">>,
    <<"I","N","T","O">>,
    <<"V","A","L","U","E","S">>,
    <<"U","P","D","A","T","E">>,
    <<"S","E","T">>,
    <<"D","E","L","E","T","E">>,
    <<"J","O","I","N">>,
    <<"L","E","F","T">>,
    <<"R","I","G","H","T">>,
    <<"I","N","N","E","R">>,
    <<"O","U","T","E","R">>,
    <<"C","R","O","S","S">>,
    <<"O","N">>,
    <<"G","R","O","U","P">>,
    <<"B","Y">>,
    <<"H","A","V","I","N","G">>,
    <<"O","R","D","E","R">>,
    <<"A","S","C">>,
    <<"D","E","S","C">>,
    <<"L","I","M","I","T">>,
    <<"O","F","F","S","E","T">>,
    <<"A","S">>,
    <<"D","I","S","T","I","N","C","T">>,
    <<"A","L","L">>,
    <<"U","N","I","O","N">>,
    <<"I","N","T","E","R","S","E","C","T">>,
    <<"E","X","C","E","P","T">>,
    <<"C","R","E","A","T","E">>,
    <<"A","L","T","E","R">>,
    <<"D","R","O","P">>,
    <<"T","A","B","L","E">>,
    <<"I","N","D","E","X">>,
    <<"V","I","E","W">>,
    <<"P","R","I","M","A","R","Y">>,
    <<"K","E","Y">>,
    <<"F","O","R","E","I","G","N">>,
    <<"R","E","F","E","R","E","N","C","E","S">>,
    <<"C","O","N","S","T","R","A","I","N","T">>,
    <<"L","I","K","E">>,
    <<"B","E","T","W","E","E","N">>,
    <<"E","X","I","S","T","S">>,
    <<"C","A","S","E">>,
    <<"W","H","E","N">>,
    <<"T","H","E","N">>,
    <<"E","L","S","E">>,
    <<"E","N","D">>,
    <<"C","O","U","N","T">>,
    <<"S","U","M">>,
    <<"A","V","G">>,
    <<"M","I","N">>,
    <<"M","A","X">>,
    <<"C","O","A","L","E","S","C","E">>,
    <<"N","U","L","L","I","F">>,
    <<"T","R","U","E">>,
    <<"F","A","L","S","E">>,
    <<"R","E","T","U","R","N","I","N","G">>
  >>

\* The maximal run of word characters of q around position k (q[k] a word
\* character): <<first, last>>.
wordAround(q, k) ==
  <<CHOOSE a \in 1..k : (\A j \in a..k : q[j] \in WordCh) /\ ~IsWordAt(q, a - 1),
    CHOOSE b \in k..Len(q) : (\A j \in k..b : q[j] \in WordCh) /\ ~IsWordAt(q, b + 1)>>

\* uppercaseKeywords: for each keyword in turn, (?i)\b + keyword + \b is
\* replaced by the keyword.  A keyword is made of word characters, so a match
\* is a whole maximal run of word characters that spells the keyword in some
\* letter case; a replacement keeps the length and the word boundaries, so the
\* keywords do not interfere and the loop comes to: every maximal run of word
\* characters that spells a keyword is uppercased.
isKeyword(w) == \E n \in DOMAIN sqlKeywords : sqlKeywords[n] = w

spellsKeyword(q, w) == isKeyword(ToUpper(SubSeq(q, w[1], w[2])))

uppercaseKeywords(q) ==
  [k \in DOMAIN q |->
     IF q[k] \in WordCh /\ spellsKeyword(q, wordAround(q, k)) THEN ToUpperCh(q[k]) ELSE q[k]]

\* fmt.Sprintf("%d", n)
RECURSIVE Decimal(_)
Decimal(n) == IF n < 10 THEN <<Digit[n + 1]>> ELSE Decimal(n \div 10) \o <<Digit[(n % 10) + 1]>>

\* fmt.Sprintf("__QUOTED_%d__", counter)
Placeholder(counter) ==
  <<"_","_","Q","U","O","T","E","D","_">> \o Decimal(counter) \o <<"_","_">>

\* One ReplaceAllStringFunc pass of removeQuotesPreservingCase: every match of
\* re becomes the placeholder of the running counter, and its group 1 (found
\* by matching the matched text again) is stored under that placeholder.
\* Returns the new text and the inner texts in the order of their counters.
extracted(re, s, counter, ms) ==
  [text |-> Splice(s, ms, [k \in DOMAIN ms |-> Placeholder(counter + k - 1)], 1),
   inners |-> [k \in DOMAIN ms |->
                 FindStringSubmatch(re, SubSeq(s, ms[k].start, ms[k].end - 1))[2]]]

extractQuoted(re, s, counter) == extracted(re, s, counter, FindAll(re, s))

\* strings.Replace(s, old, new, 1)
replaceAt(s, old, new, k) ==
  IF k = 0 THEN s
  ELSE SubSeq(s, 1, k - 1) \o new \o SubSeq(s, k + Len(old), Len(s))

ReplaceFirst(s, old, new) == replaceAt(s, old, new, Index(s, old))

\* The loop for placeholder, original := range placeholders: Go leaves the
\* order in which a map is ranged over unspecified, so the loop is run in the
\* order order, a permutation of the map's entries.
RECURSIVE restoreQuoted(_, _, _)
restoreQuoted(s, inners, order) ==
  IF order = <<>> THEN s
  ELSE restoreQuoted(ReplaceFirst(s, Placeholder(Head(order) - 1), inners[Head(order)]),
                     inners, Tail(order))

\* The placeholders map of removeQuotesPreservingCase and the text that holds
\* the placeholders, before the keywords are uppercased.
\* the placeholders map with the entries of one more pass
added(x, y) == [text |-> y.text, inners |-> x.inners \o y.inners]

\* one more pass over what the passes before left: counter is the number of
\* entries so far
extractMore(re, x) == added(x, extractQuoted(re, x.text, Len(x.inners)))

quotedExtraction(q) ==
  extractMore(reBracket,
    extractMore(reDoubleQuote,
      extractMore(reBacktick, [text |-> q, inners |-> <<>>])))

\* steps 2 and 3 of removeQuotesPreservingCase
restoreAll(x, order) == restoreQuoted(uppercaseKeywords(x.text), x.inners, order)

removeQuotesPreservingCase(q, order) == restoreAll(quotedExtraction(q), order)

\* The orders in which a map of n entries can be ranged over.
Perms(n) == {f \in [1..n -> 1..n] : \A a, b \in 1..n : a # b => f[a] # f[b]}

\* (?i)(SELECT\s+)(DISTINCT\s+)?(.+?)(\s+FROM\b)
reSelectColumns ==
  Cat(<<Grp(1, Cat(<<ILit(<<"S","E","L","E","C","T">>), S1>>)),
        Opt(Grp(2, Cat(<<ILit(<<"D","I","S","T","I","N","C","T">>), S1>>))),
        Grp(3, PlusLazy(Dot)),
        Grp(4, Cat(<<S1, ILit(<<"F","R","O","M">>), WordB>>))>>)

\* the replacement, were DISTINCT not kept
selectColumnsTextNoDistinct(match, submatches) ==
  IF Len(submatches) < 5 THEN match
  ELSE submatches[2] \o <<"*">> \o submatches[5]

\* The callback of normalizeSelectColumns: the match is matched again to get
\* its groups, and the column list (group 3) is replaced by "*".
selectColumnsText(match, submatches) ==
  IF Len(submatches) < 5 THEN match
  ELSE submatches[2] \o submatches[3] \o <<"*">> \o submatches[5]

selectColumnsRepl(match) ==
  selectColumnsText(match, FindStringSubmatch(reSelectColumns, match))

selectColumnsRepls(texts) == [k \in DOMAIN texts |-> selectColumnsRepl(texts[k])]

normalizeSelectColumns(q) ==
  ReplaceAllStringFunc(reSelectColumns, q, selectColumnsRepls(MatchTexts(reSelectColumns, q)))

\* (?i)\bINNER\s+JOIN\b, (?i)\bLEFT\s+OUTER\s+JOIN\b, ...
wJOIN == <<"J","O","I","N">>
wOUTER == <<"O","U","T","E","R">>
reInnerJoin == Cat(<<WordB, ILit(<<"I","N","N","E","R">>), S1, ILit(wJOIN), WordB>>)
reOuterJoin(side) == Cat(<<WordB, ILit(side), S1, ILit(wOUTER), S1, ILit(wJOIN), WordB>>)

normalizeJoinSyntax(q) ==
  LET r1 == ReplaceAllString(reInnerJoin, q, wJOIN)
      r2 == ReplaceAllString(reOuterJoin(<<"L","E","F","T">>), r1, <<"L","E","F","T"," ","J","O","I","N">>)
      r3 == ReplaceAllString(reOuterJoin(<<"R","I","G","H","T">>), r2, <<"R","I","G","H","T"," ","J","O","I","N">>)
  IN ReplaceAllString(reOuterJoin(<<"F","U","L","L">>), r3, <<"F","U","L","L"," ","J","O","I","N">>)

\* (?i)\s+ASC\s*, and
\* (?i)\s+ASC(\s*$|\s+LIMIT\b|\s+OFFSET\b|\s+HAVING\b|\s+UNION\b|\s*\))
wASC == <<"A","S","C">>
reAscComma == Cat(<<S1, ILit(wASC), S0, Ch(",")>>)
reAscEnd ==
  Cat(<<S1, ILit(wASC),
        Grp(1, Alt(<<Cat(<<S0, EndText>>),
                     Cat(<<S1, ILit(<<"L","I","M","I","T">>), WordB>>),
                     Cat(<<S1, ILit(<<"O","F","F","S","E","T">>), WordB>>),
                     Cat(<<S1, ILit(<<"H","A","V","I","N","G">>), WordB>>),
                     Cat(<<S1, ILit(<<"U","N","I","O","N">>), WordB>>),
                     Cat(<<S0, Ch(")")>>)>>))>>)

normalizeOrderByAsc(q) ==
  ReplaceAllString(S1,
    ReplaceAllString(reAscEnd, ReplaceAllString(reAscComma, q, <<",">>), <<"$1">>),
    <<" ">>)

\* the less function of both sorts: by column name
columnLess(p, r) == StrLess(p.column, r.column)

\* sort.Slice on a short slice (at most 12 elements) is an insertion sort:
\* element j moves left while it is less than its left neighbour.
RECURSIVE sinkLeft(_, _)
sinkLeft(data, j) ==
  IF j > 1 /\ columnLess(data[j], data[j - 1])
  THEN sinkLeft([data EXCEPT ![j] = data[j - 1], ![j - 1] = data[j]], j - 1)
  ELSE data

RECURSIVE insertionSort(_, _)
insertionSort(data, i) ==
  IF i > Len(data) THEN data
  ELSE insertionSort(sinkLeft(data, i), i + 1)

sortByColumn(pairs) == insertionSort(pairs, 2)

TrimAll(parts) == [k \in DOMAIN parts |-> TrimSpace(parts[k])]

\* (?i)(INSERT\s+INTO\s+\w+\s*)\(([^)]+)\)(\s*VALUES\s*)\(([^)]+)\)
reInsert ==
  Cat(<<Grp(1, Cat(<<ILit(<<"I","N","S","E","R","T">>), S1, ILit(<<"I","N","T","O">>), S1, W1, S0>>)),
        Ch("("), Grp(2, Plus(NotSet({")"}))), Ch(")"),
        Grp(3, Cat(<<S0, ILit(<<"V","A","L","U","E","S">>), S0>>)),
        Ch("("), Grp(4, Plus(NotSet({")"}))), Ch(")")>>)

\* The callback of sortInsertColumns.
\* the statement written again from the sorted pairs
insertText(submatches, pairs) ==
  submatches[2] \o <<"(">>
    \o Join([k \in DOMAIN pairs |-> pairs[k].column], <<",", " ">>) \o <<")">>
    \o submatches[4] \o <<"(">>
    \o Join([k \in DOMAIN pairs |-> pairs[k].value], <<",", " ">>) \o <<")">>

\* the pairs of column and value, when there are as many of the one as of
\* the other
insertPairs(match, submatches, columns, values) ==
  IF Len(columns) # Len(values) THEN match
  ELSE insertText(submatches,
                  sortByColumn([k \in DOMAIN columns |->
                                  [column |-> columns[k], value |-> values[k]]]))

insertSorted(match, submatches) ==
  IF Len(submatches) < 5 THEN match
  ELSE insertPairs(match, submatches,
                   TrimAll(Split(submatches[3], ",")), TrimAll(Split(submatches[5], ",")))

insertRepl(match) == insertSorted(match, FindStringSubmatch(reInsert, match))

insertRepls(texts) == [k \in DOMAIN texts |-> insertRepl(texts[k])]

sortInsertColumns(q) ==
  ReplaceAllStringFunc(reInsert, q, insertRepls(MatchTexts(reInsert, q)))

\* splitSetClause: split at the commas met while depth is 0, where depth is
\* the number of "(" less the number of ")" read so far; the piece after the
\* last comma is appended only when it is not empty.
depthAt(s, k) ==
  Cardinality({j \in 1..(k - 1) : s[j] = "("}) - Cardinality({j \in 1..(k - 1) : s[j] = ")"})

nonEmptyLast(pieces) ==
  IF Len(pieces[Len(pieces)]) > 0 THEN pieces
  ELSE SubSeq(pieces, 1, Len(pieces) - 1)

splitSetClause(s) ==
  nonEmptyLast(PiecesAt(s, {k \in DOMAIN s : s[k] = "," /\ depthAt(s, k) = 0}))

\* parseSetAssignments: each piece is cut at its first "="; a piece without
\* "=" makes the result nil (the empty sequence).
assignmentAt(part, eqIdx) ==
  [column |-> TrimSpace(SubSeq(part, 1, eqIdx - 1)),
   value |-> TrimSpace(SubSeq(part, eqIdx + 1, Len(part)))]

assignmentsOf(parts) ==
  IF \E k \in DOMAIN parts : Index(parts[k], <<"=">>) = 0 THEN <<>>
  ELSE [k \in DOMAIN parts |-> assignmentAt(parts[k], Index(parts[k], <<"=">>))]

parseSetAssignments(setClause) == assignmentsOf(TrimAll(splitSetClause(setClause)))

setClauseText(sorted) ==
  Join([k \in DOMAIN sorted |-> sorted[k].column \o <<" ", "=", " ">> \o sorted[k].value],
       <<",", " ">>)

sortedSetClause(prefix, setClause, suffix, assignments) ==
  IF Len(assignments) = 0 THEN prefix \o setClause \o suffix
  ELSE prefix \o setClauseText(sortByColumn(assignments)) \o suffix

sortUpdateSetClause(prefix, setClause, suffix) ==
  sortedSetClause(prefix, setClause, suffix, parseSetAssignments(setClause))

\* (?i)(UPDATE\s+\w+\s+SET\s+)(.+?)(\s+WHERE\b.*) and
\* (?i)(UPDATE\s+\w+\s+SET\s+)(.+)$
reUpdateHead == Grp(1, Cat(<<ILit(<<"U","P","D","A","T","E">>), S1, W1, S1, ILit(<<"S","E","T">>), S1>>))
reWithWhere ==
  Cat(<<reUpdateHead, Grp(2, PlusLazy(Dot)),
        Grp(3, Cat(<<S1, ILit(<<"W","H","E","R","E">>), WordB, Star(Dot)>>))>>)
reNoWhere == Cat(<<reUpdateHead, Grp(2, Plus(Dot)), EndText>>)

\* Both branches return the rebuilt match alone: the text of the query before
\* and after the match is not part of what is returned.
updateNoWhere(q, matches) ==
  IF Len(matches) >= 3 THEN sortUpdateSetClause(matches[2], matches[3], <<>>)
  ELSE q

updateWithWhere(q, matches) ==
  IF Len(matches) >= 4 THEN sortUpdateSetClause(matches[2], matches[3], matches[4])
  ELSE updateNoWhere(q, FindStringSubmatch(reNoWhere, q))

sortUpdateColumns(q) == updateWithWhere(q, FindStringSubmatch(reWithWhere, q))

\* (?i)\s+RETURNING\s+.+$
reReturning == Cat(<<S1, ILit(<<"R","E","T","U","R","N","I","N","G">>), S1, Plus(Dot), EndText>>)

removeReturningClause(q) == ReplaceAllString(reReturning, q, <<>>)

\* hasJoin: strings.Contains on the uppercased query
joinPatterns ==
  <<<<" ","J","O","I","N"," ">>,
    <<" ","L","E","F","T"," ","J","O","I","N"," ">>,
    <<" ","R","I","G","H","T"," ","J","O","I","N"," ">>,
    <<" ","I","N","N","E","R"," ","J","O","I","N"," ">>,
    <<" ","O","U","T","E","R"," ","J","O","I","N"," ">>,
    <<" ","C","R","O","S","S"," ","J","O","I","N"," ">>,
    <<" ","F","U","L","L"," ","J","O","I","N"," ">>,
    <<" ","N","A","T","U","R","A","L"," ","J","O","I","N"," ">>>>

hasJoin(upperQuery) == \E k \in DOMAIN joinPatterns : Contains(upperQuery, joinPatterns[k])

subqueryPatterns == <<<<"(","S","E","L","E","C","T"," ">>, <<"("," ","S","E","L","E","C","T"," ">>>>

hasSubquery(upperQuery) ==
  \E k \in DOMAIN subqueryPatterns : Contains(upperQuery, subqueryPatterns[k])

\* \bFROM\s+\w+\s*, (on the uppercased query, case-sensitive)
wFROM == <<"F","R","O","M">>
wUPDATE == <<"U","P","D","A","T","E">>
reCommaFrom == Cat(<<WordB, Lit(wFROM), S1, W1, S0, Ch(",")>>)

hasMultipleTables(upperQuery) == MatchString(reCommaFrom, upperQuery)

\* (?i)\b(FROM|UPDATE|INSERT\s+INTO)\s+\w+\.\w+
reInsertInto == Cat(<<ILit(<<"I","N","S","E","R","T">>), S1, ILit(<<"I","N","T","O">>)>>)
reSchemaPrefix ==
  Cat(<<WordB, Grp(1, Alt(<<ILit(wFROM), ILit(wUPDATE), reInsertInto>>)),
        S1, W1, Ch("."), W1>>)

hasSchemaPrefix(q) == MatchString(reSchemaPrefix, q)

\* (?i)\bFROM\s+(\w+), (?i)\bUPDATE\s+(\w+), (?i)\bINSERT\s+INTO\s+(\w+)
reFromTable == Cat(<<WordB, ILit(wFROM), S1, Grp(1, W1)>>)
reUpdateTable == Cat(<<WordB, ILit(wUPDATE), S1, Grp(1, W1)>>)
reInsertTable == Cat(<<WordB, reInsertInto, S1, Grp(1, W1)>>)

\* group 1 of matches when there is a match, else otherwise
tableOr(matches, otherwise) == IF Len(matches) >= 2 THEN matches[2] ELSE otherwise

extractTableName(q) ==
  tableOr(FindStringSubmatch(reFromTable, q),
    tableOr(FindStringSubmatch(reUpdateTable, q),
      tableOr(FindStringSubmatch(reInsertTable, q), <<>>)))

\* (?i)\b + regexp.QuoteMeta(tableName) + \.(\w+); a table name is \w+
\* and QuoteMeta leaves it as it is.
reQualified(tableName) == Cat(<<WordB, ILit(tableName), Ch("."), Grp(1, W1)>>)

stripQualifier(q, tableName) ==
  IF tableName = <<>> THEN q
  ELSE ReplaceAllString(reQualified(tableName), q, <<"$1">>)

qualifiersIn(q, upperQuery) ==
  IF hasJoin(upperQuery) THEN q
  ELSE IF hasSubquery(upperQuery) THEN q
  ELSE IF hasMultipleTables(upperQuery) THEN q
  ELSE IF hasSchemaPrefix(q) THEN q
  ELSE stripQualifier(q, extractTableName(q))

normalizeTableQualifiers(q) == qualifiersIn(q, ToUpper(q))

-----------------------------------------------------------------------------
(* internal/normalizer: Options and Normalize.                             *)

OptionNames ==
  {"UnifyPlaceholders", "RemoveComments", "UppercaseKeywords", "RemoveQuotes",
   "NormalizeSelectColumns", "NormalizeJoinSyntax", "NormalizeOrderByAsc",
   "SortInsertColumns", "SortUpdateColumns", "RemoveReturningClause",
   "NormalizeTableQualifiers"}

DefaultOptions ==
  [o \in OptionNames |->
     o \in {"UnifyPlaceholders", "RemoveComments", "UppercaseKeywords", "RemoveQuotes"}]

\* DefaultOptions with the switches of on turned on as well.
With(on) == [o \in OptionNames |-> DefaultOptions[o] \/ o \in on]

\* Normalize up to and including the quote stage, given the order in which
\* the placeholders map is ranged over.
afterQuotes(opts, q, order) ==
  LET c == IF opts["RemoveComments"] THEN removeComments(q) ELSE q
  IN IF opts["RemoveQuotes"] /\ opts["UppercaseKeywords"]
     THEN removeQuotesPreservingCase(c, order)
     ELSE IF opts["RemoveQuotes"] THEN removeQuotes(c)
     ELSE c

\* Normalizer.Normalize, for one order of the range over placeholders: each
\* stage is applied when its switch is on, in the order of the code, to the
\* result of the stages before it.  A stage starts once that result has been
\* computed (Ready), as the statements of the code follow one another.
Ready(r) == Len(r) >= 0

trimmed(r) == IF Ready(r) THEN TrimSpace(r) ELSE r

qualifiersStage(opts, r) ==
  IF Ready(r)
  THEN trimmed(IF opts["NormalizeTableQualifiers"] THEN normalizeTableQualifiers(r) ELSE r)
  ELSE r

\* the stage of the RETURNING clause, were it applied whatever its switch
returningStageAlways(opts, r) ==
  IF Ready(r) THEN qualifiersStage(opts, removeReturningClause(r)) ELSE r

returningStage(opts, r) ==
  IF Ready(r)
  THEN qualifiersStage(opts, IF opts["RemoveReturningClause"] THEN removeReturningClause(r) ELSE r)
  ELSE r

updateStage(opts, r) ==
  IF Ready(r)
  THEN returningStage(opts, IF opts["SortUpdateColumns"] THEN sortUpdateColumns(r) ELSE r)
  ELSE r

insertStage(opts, r) ==
  IF Ready(r)
  THEN updateStage(opts, IF opts["SortInsertColumns"] THEN sortInsertColumns(r) ELSE r)
  ELSE r

orderByStage(opts, r) ==
  IF Ready(r)
  THEN insertStage(opts, IF opts["NormalizeOrderByAsc"] THEN normalizeOrderByAsc(r) ELSE r)
  ELSE r

joinStage(opts, r) ==
  IF Ready(r)
  THEN orderByStage(opts, IF opts["NormalizeJoinSyntax"] THEN normalizeJoinSyntax(r) ELSE r)
  ELSE r

selectStage(opts, r) ==
  IF Ready(r)
  THEN joinStage(opts, IF opts["NormalizeSelectColumns"] THEN normalizeSelectColumns(r) ELSE r)
  ELSE r

keywordStage(opts, r) ==
  IF Ready(r)
  THEN selectStage(opts, IF opts["UppercaseKeywords"] /\ ~opts["RemoveQuotes"]
                         THEN uppercaseKeywords(r) ELSE r)
  ELSE r

whitespaceStage(opts, r) ==
  IF Ready(r) THEN keywordStage(opts, normalizeWhitespace(r)) ELSE r

placeholderStage(opts, r) ==
  IF Ready(r)
  THEN whitespaceStage(opts, IF opts["UnifyPlaceholders"] THEN unifyPlaceholders(r) ELSE r)
  ELSE r

NormalizeIn(opts, q, order) == placeholderStage(opts, afterQuotes(opts, q, order))

\* How many entries the placeholders map gets when q is normalized.
quotedCount(opts, q) ==
  IF opts["RemoveQuotes"] /\ opts["UppercaseKeywords"]
  THEN Len(quotedExtraction(IF opts["RemoveComments"] THEN removeComments(q) ELSE q).inners)
  ELSE 0

\* Every string a call Normalize(q) can return.
NormalizeOutcomes(opts, q) ==
  {NormalizeIn(opts, q, order) : order \in Perms(quotedCount(opts, q))}

-----------------------------------------------------------------------------
(* internal/comparator.                                                    *)

CompareStrict == "STRICT"
CompareUnordered == "UNORDERED"
DiffMatch == "MATCH"
DiffMissing == "MISSING"
DiffExtra == "EXTRA"
DiffModified == "MODIFIED"

\* A Difference; a field the code does not set holds the empty string.
Difference(type, index, exp, act) ==
  [Type |-> type, Index |-> index, Expected |-> exp, Actual |-> act]

\* a loop bound that takes the shorter of the two lengths
MaxAsShorter(a, b) == IF a >= b THEN b ELSE a

\* maxLen of compareStrict
Max(a, b) == IF a >= b THEN a ELSE b

\* The loop of compareStrict from index i on (indices are the code's, from 0).
RECURSIVE strictFrom(_, _, _, _)
strictFrom(exp, act, i, res) ==
  IF i >= Max(Len(act), Len(exp)) THEN res
  ELSE IF i >= Len(exp)
       THEN strictFrom(exp, act, i + 1,
              [Equal |-> FALSE,
               Differences |-> Append(res.Differences, Difference(DiffExtra, i, <<>>, act[i + 1]))])
  ELSE IF i >= Len(act)
       THEN strictFrom(exp, act, i + 1,
              [Equal |-> FALSE,
               Differences |-> Append(res.Differences, Difference(DiffMissing, i, exp[i + 1], <<>>))])
  ELSE IF exp[i + 1] # act[i + 1]
       THEN strictFrom(exp, act, i + 1,
              [Equal |-> FALSE,
               Differences |-> Append(res.Differences,
                                      Difference(DiffModified, i, exp[i + 1], act[i + 1]))])
  ELSE strictFrom(exp, act, i + 1,
         [Equal |-> res.Equal,
          Differences |-> Append(res.Differences,
                                 Difference(DiffMatch, i, exp[i + 1], act[i + 1]))])

compareStrict(exp, act) == strictFrom(exp, act, 0, [Equal |-> TRUE, Differences |-> <<>>])

\* maps that record which strings occur, not how often
countMapAsSet(qs) == [q \in Range(qs) |-> 1]

\* The maps of compareUnordered: each string to its number of occurrences.
countMap(qs) == [q \in Range(qs) |-> Cardinality({k \in DOMAIN qs : qs[k] = q})]

\* m[q] of a Go map: 0 for a key it does not hold
Get(m, q) == IF q \in DOMAIN m THEN m[q] ELSE 0

\* The first loop of compareUnordered, over the expected queries from k on.
RECURSIVE missingFrom(_, _, _, _)
missingFrom(exp, k, actualMap, res) ==
  IF k > Len(exp) THEN res
  ELSE LET q == exp[k]
       IN IF Get(actualMap, q) <= 0
          THEN missingFrom(exp, k + 1, actualMap,
                 [Equal |-> FALSE, idx |-> res.idx + 1,
                  Differences |-> Append(res.Differences,
                                         Difference(DiffMissing, res.idx, q, <<>>))])
          ELSE missingFrom(exp, k + 1, [actualMap EXCEPT ![q] = @ - 1],
                 [Equal |-> res.Equal, idx |-> res.idx + 1,
                  Differences |-> Append(res.Differences,
                                         Difference(DiffMatch, res.idx, q, q))])

\* The second loop of compareUnordered, over the actual queries from k on.
RECURSIVE extraFrom(_, _, _, _)
extraFrom(act, k, expectedMap, res) ==
  IF k > Len(act) THEN res
  ELSE LET q == act[k]
       IN IF Get(expectedMap, q) <= 0
          THEN extraFrom(act, k + 1, expectedMap,
                 [Equal |-> FALSE, idx |-> res.idx + 1,
                  Differences |-> Append(res.Differences,
                                         Difference(DiffExtra, res.idx, <<>>, q))])
          ELSE extraFrom(act, k + 1, [expectedMap EXCEPT ![q] = @ - 1], res)

\* a comparison whose second loop leaves Equal as the first loop set it
compareUnorderedKeepsEqual(exp, act) ==
  LET first == missingFrom(exp, 1, countMap(act),
                           [Equal |-> TRUE, idx |-> 0, Differences |-> <<>>])
      second == extraFrom(act, 1, countMap(exp), first)
  IN [Equal |-> first.Equal, Differences |-> second.Differences]

compareUnordered(exp, act) ==
  LET first == missingFrom(exp, 1, countMap(act),
                           [Equal |-> TRUE, idx |-> 0, Differences |-> <<>>])
      second == extraFrom(act, 1, countMap(exp), first)
  IN [Equal |-> second.Equal, Differences |-> second.Differences]

\* a comparator that ignores its mode
CompareIgnoresMode(m, exp, act) == compareStrict(exp, act)

\* Comparator.Compare
Compare(m, exp, act) ==
  IF m = CompareUnordered THEN compareUnordered(exp, act) ELSE compareStrict(exp, act)

-----------------------------------------------------------------------------
(* The comparator under test: Compare is called once on a pair of          *)
(* sequences of canonical strings.                                         *)

MaxQueries == 3

\* the canonical strings the sequences are made of
Canon == {<<"A">>, <<"B">>, <<"C">>}

SeqsUpTo(S, n) == UNION {[1..k -> S] : k \in 0..n}

NoResult == [Equal |-> FALSE, Differences |-> <<>>]

InitCompare ==
  /\ pc = "idle"
  /\ expected \in SeqsUpTo(Canon, MaxQueries)
  /\ actual \in SeqsUpTo(Canon, MaxQueries)
  /\ mode \in {CompareStrict, CompareUnordered}
  /\ cmp = NoResult
  /\ options = DefaultOptions
  /\ input = <<>> /\ query = <<>> /\ result = <<>> /\ result2 = <<>>
  /\ NoCapture

\* comparator.New(mode).Compare(expected, actual)
CompareCall ==
  /\ pc = "idle"
  /\ cmp' = Compare(mode, expected, actual)
  /\ pc' = "compared"
  /\ UNCHANGED <<options, input, query, result, result2, expected, actual, mode>>
  /\ UNCHANGED capture

NextCompare == CompareCall

SpecCompare == InitCompare /\ [][NextCompare]_vars

-----------------------------------------------------------------------------
(* The normalizer under test: Normalize is called on a query, and then     *)
(* either on its own result or once more on the same query.                *)

NormalizerIdle(q) ==
  /\ pc = "idle"
  /\ query = q
  /\ result = <<>> /\ result2 = <<>>
  /\ expected = <<>> /\ actual = <<>> /\ mode = CompareStrict /\ cmp = NoResult
  /\ NoCapture

\* n.Normalize(query)
NormalizeCall ==
  /\ pc = "idle"
  /\ result' \in NormalizeOutcomes(options, query)
  /\ pc' = "once"
  /\ UNCHANGED <<options, input, query, result2, expected, actual, mode, cmp>>
  /\ UNCHANGED capture

\* n.Normalize(n.Normalize(query))
NormalizeAgain ==
  /\ pc = "once"
  /\ result2' \in NormalizeOutcomes(options, result)
  /\ pc' = "twice"
  /\ UNCHANGED <<options, input, query, result, expected, actual, mode, cmp>>
  /\ UNCHANGED capture

\* a second n.Normalize(query)
NormalizeSame ==
  /\ pc = "once"
  /\ result2' \in NormalizeOutcomes(options, query)
  /\ pc' = "same"
  /\ UNCHANGED <<options, input, query, result, expected, actual, mode, cmp>>
  /\ UNCHANGED capture

NextNormalize == NormalizeCall \/ NormalizeAgain \/ NormalizeSame

-----------------------------------------------------------------------------
(* Claims about the comparator.                                            *)

Count(qs, q) == Cardinality({k \in DOMAIN qs : qs[k] = q})
Least(a, b) == IF a <= b THEN a ELSE b
Most(a, b) == IF a >= b THEN a ELSE b
Diffs(type) == {k \in DOMAIN cmp.Differences : cmp.Differences[k].Type = type}
Compared(m) == pc = "compared" /\ mode = m

C3_StrictIsPositional ==
  Compared(CompareStrict) =>
    /\ Len(cmp.Differences) = Most(Len(expected), Len(actual))
    /\ \A k \in DOMAIN cmp.Differences :
         LET d == cmp.Differences[k]
         IN /\ d.Index = k - 1
            /\ d.Type = (IF k <= Len(expected) /\ k <= Len(actual)
                         THEN (IF expected[k] = actual[k] THEN DiffMatch ELSE DiffModified)
                         ELSE IF k <= Len(expected) THEN DiffMissing ELSE DiffExtra)
            /\ (d.Type = DiffModified => k <= Len(expected) /\ k <= Len(actual))

\* C3 witness: a strict comparison of sequences of different lengths that
\* differ at an index both have.
C3_Witness ==
  /\ Compared(CompareStrict)
  /\ Len(expected) > Len(actual) /\ Len(actual) >= 1
  /\ Diffs(DiffModified) # {} /\ Diffs(DiffMissing) # {}

\* C4: in both modes Equal is true iff every Difference is a MATCH (so it is
\* true for two empty sequences).
C4_EqualIffAllMatch ==
  pc = "compared" =>
    (cmp.Equal <=> \A k \in DOMAIN cmp.Differences : cmp.Differences[k].Type = DiffMatch)

\* C4 witness: a comparison that is not Equal, and whose list holds a MATCH
\* followed by a difference that is none.
C4_Witness ==
  /\ pc = "compared" /\ ~cmp.Equal
  /\ Len(cmp.Differences) >= 2
  /\ cmp.Differences[1].Type = DiffMatch
  /\ cmp.Differences[2].Type # DiffMatch

IsPermutation(a, b) == Len(a) = Len(b) /\ \A s \in Canon : Count(a, s) = Count(b, s)

\* C5: for expected = [A, B] and actual = [B, A] with A # B, STRICT yields two
\* MODIFIED differences and Equal = false; whenever actual is a permutation of
\* expected, UNORDERED yields only MATCH differences, one for each query, and
\* Equal = true.
C5_StrictVersusUnordered ==
  pc = "compared" =>
    /\ (mode = CompareStrict /\ Len(expected) = 2 /\ expected[1] # expected[2]
          /\ actual = <<expected[2], expected[1]>>)
         => /\ ~cmp.Equal
            /\ Len(cmp.Differences) = 2
            /\ \A k \in 1..2 : cmp.Differences[k].Type = DiffModified
    /\ (mode = CompareUnordered /\ IsPermutation(expected, actual))
         => /\ cmp.Equal
            /\ Len(cmp.Differences) = Len(expected)
            /\ \A k \in DOMAIN cmp.Differences : cmp.Differences[k].Type = DiffMatch

\* C5 witness: the unordered comparison of [A, B] with [B, A].
C5_Witness ==
  /\ Compared(CompareUnordered)
  /\ Len(expected) = 2 /\ expected[1] # expected[2]
  /\ actual = <<expected[2], expected[1]>>
  /\ cmp.Equal

-----------------------------------------------------------------------------
(* Statements written from identifiers, bare or quoted.                    *)

MaxTokens == 2

\* a keyword in lower case, a keyword in mixed case, a plain name, and two
\* names of the form the quote stage uses for its placeholders
Words == {<<"c","o","u","n","t">>, <<"O","r">>, <<"x">>, <<"_","_","Q","U","O","T","E","D","_","0","_","_">>, <<"_","_","Q","U","O","T","E","D","_","1","_","_">>}

Styles == {"bare", "backtick", "double", "bracket"}

Tokens == [style : Styles, word : Words]

WriteToken(tok) ==
  CASE tok.style = "bare" -> tok.word
    [] tok.style = "backtick" -> <<BT>> \o tok.word \o <<BT>>
    [] tok.style = "double" -> <<"\"">> \o tok.word \o <<"\"">>
    [] tok.style = "bracket" -> <<"[">> \o tok.word \o <<"]">>

WriteTokens(toks) == Join([k \in DOMAIN toks |-> WriteToken(toks[k])], <<" ">>)

\* Options with exactly the switches of on turned on
Only(on) == [o \in OptionNames |-> o \in on]

TokenConfigs ==
  {DefaultOptions, Only({}), Only({"RemoveQuotes"}), Only({"UppercaseKeywords"}),
   Only({"RemoveQuotes", "UppercaseKeywords"})}

InitTokens ==
  /\ input \in SeqsUpTo(Tokens, MaxTokens)
  /\ options \in TokenConfigs
  /\ NormalizerIdle(WriteTokens(input))

SpecTokens == InitTokens /\ [][NextNormalize]_vars

\* C1: normalising is idempotent: for every configuration and every query,
\* Normalize(Normalize(q)) = Normalize(q).
C1_Idempotent == pc = "twice" => result2 = result

\* C6: Normalize is a pure function of the configuration and the query: a
\* second call on the same query returns the same string as the first, and
\* no call changes the configuration.
C6_PureFunction ==
  [][(pc' = "same" => result2' = result) /\ options' = options]_vars

\* what a token is to become: a bare keyword in upper case, any other bare
\* word itself, and the inner text of a quoted identifier as it was written
Kept(tok) ==
  IF tok.style = "bare" /\ ToUpper(tok.word) \in Range(sqlKeywords) THEN ToUpper(tok.word)
  ELSE tok.word

\* C7: when quote removal and keyword folding are both enabled, the inner
\* text of every quoted identifier is in the output at its original position
\* and in its original letter case, even when it spells a keyword, while the
\* unquoted keywords of the statement are in upper case.
C7_QuotedCasePreserved ==
  (pc = "once" /\ options["RemoveQuotes"] /\ options["UppercaseKeywords"]) =>
    result = Join([k \in DOMAIN input |-> Kept(input[k])], <<" ">>)

-----------------------------------------------------------------------------
(* INSERT and UPDATE statements written from columns and values.           *)

MaxCols == 2

Columns == {<<"a">>, <<"b">>, <<"c">>}

\* the sequences of one to MaxCols different columns
ColumnLists ==
  {cs \in SeqsUpTo(Columns, MaxCols) :
     Len(cs) >= 1 /\ \A i, j \in DOMAIN cs : i # j => cs[i] # cs[j]}

\* a placeholder, a number, and function calls with parentheses and a comma
InsertValues == {<<"?">>, <<"1">>, <<"n","o","w","(",")">>, <<"f","(","1",","," ","2",")">>}

InsertShapes ==
  UNION {[columns : {cs}, values : [1..Len(cs) -> InsertValues]] : cs \in ColumnLists}

WriteInsert(in) ==
  <<"I","N","S","E","R","T"," ","I","N","T","O"," ","t"," ","(">> \o Join(in.columns, <<","," ">>) \o <<")"," ","V","A","L","U","E","S"," ","(">>
    \o Join(in.values, <<","," ">>) \o <<")">>

InitInsert ==
  /\ input \in InsertShapes
  /\ options = With({"SortInsertColumns"})
  /\ NormalizerIdle(WriteInsert(input))

SpecInsert == InitInsert /\ [][NextNormalize]_vars

\* a placeholder, a function call, and subqueries in parentheses
SetValues == {<<"?">>, <<"f","(","1",","," ","2",")">>, <<"(","S","E","L","E","C","T"," ","x"," ","F","R","O","M"," ","u",")">>, <<"(","S","E","L","E","C","T"," ","x"," ","F","R","O","M"," ","u"," ","W","H","E","R","E"," ","y"," ","="," ","1",")">>}

Wheres == {<<>>, <<" ","W","H","E","R","E"," ","i","d"," ","="," ","?">>}

UpdateShapes ==
  UNION {[columns : {cs}, values : [1..Len(cs) -> SetValues], where : Wheres] :
           cs \in ColumnLists}

WriteUpdate(in) ==
  <<"U","P","D","A","T","E"," ","t"," ","S","E","T"," ">>
    \o Join([k \in DOMAIN in.columns |-> in.columns[k] \o <<" ","="," ">> \o in.values[k]], <<","," ">>)
    \o in.where

InitUpdate ==
  /\ input \in UpdateShapes
  /\ options = With({"SortUpdateColumns"})
  /\ NormalizerIdle(WriteUpdate(input))

SpecUpdate == InitUpdate /\ [][NextNormalize]_vars

\* the order that lists columns cs in ascending order
Ascending(cs) ==
  CHOOSE p \in [DOMAIN cs -> DOMAIN cs] :
    \A i, j \in DOMAIN cs : i < j => StrLess(cs[p[i]], cs[p[j]])

\* the columns in ascending order, each with the value it was written with
Sorted(in) ==
  LET p == Ascending(in.columns)
  IN [in EXCEPT !.columns = [k \in DOMAIN in.columns |-> in.columns[p[k]]],
                !.values = [k \in DOMAIN in.values |-> in.values[p[k]]]]

\* C8: with INSERT column sorting enabled, the output of a matching INSERT
\* lists the columns in ascending order, each with the value it had in the
\* input, both lists as long as before, also for values that are function
\* calls with commas or parentheses; the output is a fixed point.
C8_InsertSorted ==
  /\ pc = "once" => result = WriteInsert(Sorted(input))
  /\ pc = "twice" => result2 = result

\* C9: with UPDATE column sorting enabled, the SET clause is split only at
\* commas outside parentheses and the output holds the same assignments
\* ordered by column name, with or without a WHERE clause, also when a value
\* is a function call or a subquery in parentheses.
C9_UpdateSorted ==
  pc = "once" => result = WriteUpdate(Sorted(input))

-----------------------------------------------------------------------------
(* SELECT statements with qualified columns.                               *)

\* what follows FROM, and how it names more than the one table
FromClauses ==
  {[text |-> <<"u","s","e","r","s">>, kind |-> "single"],
   [text |-> <<"u","s","e","r","s"," ","u">>, kind |-> "single"],
   [text |-> <<"u","s","e","r","s",","," ","o","r","d","e","r","s">>, kind |-> "comma"],
   [text |-> <<"u","s","e","r","s"," ","u",","," ","o","r","d","e","r","s"," ","o">>, kind |-> "comma"],
   [text |-> <<"u","s","e","r","s"," ","u",","," ","u","s","e","r","s">>, kind |-> "comma"],
   [text |-> <<"u","s","e","r","s"," ","J","O","I","N"," ","o","r","d","e","r","s"," ","O","N"," ","u","s","e","r","s",".","i","d"," ","="," ","o","r","d","e","r","s",".","u","i","d">>, kind |-> "join"],
   [text |-> <<"u","s","e","r","s"," ","u"," ","J","O","I","N"," ","o","r","d","e","r","s"," ","o"," ","O","N"," ","u",".","i","d"," ","="," ","o",".","u","i","d">>, kind |-> "join"],
   [text |-> <<"p","u","b","l","i","c",".","u","s","e","r","s">>, kind |-> "schema"]}

SelectLists == {<<"*">>, <<"u","s","e","r","s",".","i","d">>, <<"u",".","i","d">>}

Conditions ==
  {[text |-> <<"a","g","e"," ",">","="," ","?">>, subquery |-> FALSE],
   [text |-> <<"u","s","e","r","s",".","a","g","e"," ",">","="," ","?">>, subquery |-> FALSE],
   [text |-> <<"u",".","a","g","e"," ",">","="," ","?">>, subquery |-> FALSE],
   [text |-> <<"u","s","e","r","s",".","i","d"," ","I","N"," ","(","S","E","L","E","C","T"," ","u","i","d"," ","F","R","O","M"," ","o","r","d","e","r","s",")">>, subquery |-> TRUE]}

SelectShapes == [list : SelectLists, from : FromClauses, cond : Conditions]

WriteSelect(in) ==
  <<"S","E","L","E","C","T"," ">> \o in.list \o <<" ","F","R","O","M"," ">> \o in.from.text \o <<" ","W","H","E","R","E"," ">> \o in.cond.text

InitSelect ==
  /\ input \in SelectShapes
  /\ options = With({"NormalizeTableQualifiers"})
  /\ NormalizerIdle(WriteSelect(input))

SpecSelect == InitSelect /\ [][NextNormalize]_vars

\* the number of places of s at which sub is written
Occurrences(s, sub) ==
  Cardinality({p \in 1..(Len(s) - Len(sub) + 1) : SubSeq(s, p, p + Len(sub) - 1) = sub})

\* C10: with qualifier stripping enabled, no qualifier is stripped from a
\* statement with a JOIN, a comma-joined FROM list (with or without table
\* aliases), a subquery or a schema-qualified table; and a qualifier that is
\* a table alias is never stripped.
C10_QualifiersKept ==
  pc = "once" =>
    /\ (input.from.kind \in {"join", "comma", "schema"} \/ input.cond.subquery)
         => result = query
    /\ Occurrences(result, <<" ","u",".">>) = Occurrences(query, <<" ","u",".">>)


-----------------------------------------------------------------------------
(* Single-table statements with qualified column references.               *)

MaxRefs == 2

\* the table of the statements
TableName == <<"a","b">>

\* what a column is written behind: nothing, the table name as it is written
\* in the statement, the table name in other letter cases, a longer name
\* that ends with the table name, and another name
Qualifiers == {<<>>, <<"a","b">>, <<"A","B">>, <<"A","b">>, <<"x","a","b">>, <<"u">>}

\* a placeholder, and a string literal in which the table name is written
RefValues == {<<"?">>, <<"'","a","b",".","c","'">>}

RefConditions == [qual : Qualifiers, value : RefValues]

Verbs == {"select", "update", "delete"}

QualifiedShapes == [verb : Verbs, conds : SeqsUpTo(RefConditions, MaxRefs) \ {<<>>}]

WriteRef(c) ==
  (IF c.qual = <<>> THEN <<>> ELSE c.qual \o <<".">>) \o <<"c", " ", "=", " ">> \o c.value

WriteRefs(cs) == Join([k \in DOMAIN cs |-> WriteRef(cs[k])], <<" ","A","N","D"," ">>)

WriteQualified(in) ==
  CASE in.verb = "select" -> <<"S","E","L","E","C","T"," ","*"," ","F","R","O","M"," ">> \o TableName \o <<" ","W","H","E","R","E"," ">> \o WriteRefs(in.conds)
    [] in.verb = "delete" -> <<"D","E","L","E","T","E"," ","F","R","O","M"," ">> \o TableName \o <<" ","W","H","E","R","E"," ">> \o WriteRefs(in.conds)
    [] in.verb = "update" ->
         <<"U","P","D","A","T","E"," ">> \o TableName \o <<" ","S","E","T"," ">> \o WriteRef(Head(in.conds))
           \o (IF Len(in.conds) = 1 THEN <<>> ELSE <<" ","W","H","E","R","E"," ">> \o WriteRefs(Tail(in.conds)))

InitQualified ==
  /\ input \in QualifiedShapes
  /\ options = With({"NormalizeTableQualifiers"})
  /\ NormalizerIdle(WriteQualified(input))

SpecQualified == InitQualified /\ [][NextNormalize]_vars

\* the statement with every qualifier that is the table name, in any letter
\* case, taken from its column references
Unqualified(in) ==
  [in EXCEPT !.conds = [k \in DOMAIN in.conds |->
     IF ToUpper(in.conds[k].qual) = ToUpper(TableName)
     THEN [in.conds[k] EXCEPT !.qual = <<>>] ELSE in.conds[k]]]

\* C11: with table-qualifier removal enabled, in a single-table SELECT,
\* UPDATE or DELETE statement every column reference table.column whose
\* table is the table name of the statement in any letter case is rewritten
\* to the bare column, and nothing else in the statement changes.
C11_QualifiersStripped ==
  pc = "once" => result = WriteQualified(Unqualified(input))

\* C11 for the statements without a string literal
C11_WithoutLiterals ==
  (pc = "once" /\ \A k \in DOMAIN input.conds : input.conds[k].value = <<"?">>)
    => result = WriteQualified(Unqualified(input))

-----------------------------------------------------------------------------
(* Statements with placeholders.                                           *)

MaxMarks == 2

\* the markers of the three styles the stage converts
Markers == {<<"$","1">>, <<"$","1","2">>, <<":","i","d">>, <<"@","i","d">>}

\* a question mark, a name, a string literal with an at sign, a string literal
\* with a colon, and a cast written with two colons
OtherTexts == {<<"?">>, <<"x">>, <<"'","a","@","b",".","c","'">>, <<"'","1","2",":","3","0","'">>, <<"x",":",":","y">>}

MarkTexts == Markers \cup OtherTexts

InitMarks ==
  /\ input \in SeqsUpTo(MarkTexts, MaxMarks)
  /\ options = DefaultOptions
  /\ NormalizerIdle(Join(input, <<" ">>))

SpecMarks == InitMarks /\ [][NextNormalize]_vars

\* the placeholder tokens of a statement: its markers and its question marks
IsPlaceholder(text) == text \in Markers \/ text = <<"?">>

Unified(texts) == [k \in DOMAIN texts |-> IF texts[k] \in Markers THEN <<"?">> ELSE texts[k]]

\* C12: with placeholder unification enabled, every marker $n, :name and
\* @name of the input is one question mark in the output, and the output has
\* as many question marks as the input has placeholder tokens of any style.
C12_PlaceholdersUnified ==
  pc = "once" =>
    /\ result = Join(Unified(input), <<" ">>)
    /\ Occurrences(result, <<"?">>) = Cardinality({k \in DOMAIN input : IsPlaceholder(input[k])})

\* C12 for the statements written from markers, question marks and names
C12_MarkersOnly ==
  (pc = "once" /\ \A k \in DOMAIN input : IsPlaceholder(input[k]) \/ input[k] = <<"x">>)
    => /\ result = Join(Unified(input), <<" ">>)
       /\ Occurrences(result, <<"?">>) = Cardinality({k \in DOMAIN input : IsPlaceholder(input[k])})

-----------------------------------------------------------------------------
(* One statement written twice, with different whitespace between its      *)
(* tokens.                                                                  *)

MaxWords == 2

\* a name, a comma and an operator
SpacedTokens == {<<"a">>, <<",">>, <<"=">>}

\* what is written between two tokens: nothing, a space, and a newline with
\* a tab
Spaces == {<<>>, <<" ">>, <<"\n", "\t">>}

\* gaps[1] is written before the first token and gaps[k + 1] after the k-th;
\* two equal tokens that follow one another are kept apart, as they would
\* read as one token otherwise
Separated(tokens, gaps) ==
  \A k \in 1..(Len(tokens) - 1) : tokens[k] = tokens[k + 1] => gaps[k + 1] # <<>>

\* a statement, its whitespace, and one gap of it written in another way
SpacedShapes ==
  {in \in UNION {[tokens : {ts}, gaps : [1..(Len(ts) + 1) -> Spaces],
                  at : 1..(Len(ts) + 1), to : Spaces] :
                   ts \in SeqsUpTo(SpacedTokens, MaxWords) \ {<<>>}} :
     /\ Separated(in.tokens, in.gaps)
     /\ Separated(in.tokens, [in.gaps EXCEPT ![in.at] = in.to])
     /\ in.gaps[in.at] # in.to}

WriteSpaced(tokens, gaps) ==
  gaps[1] \o Join([k \in 1..Len(tokens) |-> tokens[k] \o gaps[k + 1]], <<>>)

\* the statement with its whitespace changed at one gap
Respaced(in) == WriteSpaced(in.tokens, [in.gaps EXCEPT ![in.at] = in.to])

InitSpaced ==
  /\ input \in SpacedShapes
  /\ options = DefaultOptions
  /\ NormalizerIdle(WriteSpaced(input.tokens, input.gaps))

\* n.Normalize of the same statement with other whitespace
NormalizeRespaced ==
  /\ pc = "once"
  /\ result2' \in NormalizeOutcomes(options, Respaced(input))
  /\ pc' = "respaced"
  /\ UNCHANGED <<options, input, query, result, expected, actual, mode, cmp>>
  /\ UNCHANGED capture

NextSpaced == NormalizeCall \/ NormalizeRespaced

SpecSpaced == InitSpaced /\ [][NextSpaced]_vars

\* C13: inserting or removing whitespace that has no meaning around the
\* tokens of a query does not change what Normalize returns.
C13_WhitespaceInvariant == pc = "respaced" => result2 = result

\* C13 for whitespace that is only lengthened, shortened or written with
\* other characters between two tokens, or changed at the ends
C13_RunsOnly ==
  (pc = "respaced" /\ (input.at \in {1, Len(input.tokens) + 1}
                         \/ (input.gaps[input.at] # <<>> /\ input.to # <<>>)))
    => result2 = result

-----------------------------------------------------------------------------
(* Statements of every kind, written with whitespace of several forms,     *)
(* under configurations with each stage on and off.                        *)

\* statements as lists of tokens: a SELECT with an ORDER BY clause, a SELECT
\* with a JOIN, an INSERT, two UPDATEs, the second with a string literal in
\* which a comma and an equals sign are written, a DELETE, and a SELECT with
\* keywords in lower case, quoted identifiers, a comment and placeholders
CleanStatements ==
  {<<<<"S","E","L","E","C","T">>, <<"a">>, <<",">>, <<"b">>, <<"F","R","O","M">>, <<"t">>, <<"O","R","D","E","R">>, <<"B","Y">>, <<"a">>, <<"A","S","C">>, <<",">>, <<"b">>, <<"A","S","C">>, <<"L","I","M","I","T">>, <<"1">>>>,
   <<<<"S","E","L","E","C","T">>, <<"*">>, <<"F","R","O","M">>, <<"t">>, <<"I","N","N","E","R">>, <<"J","O","I","N">>, <<"u">>, <<"O","N">>, <<"t",".","a">>, <<"=">>, <<"u",".","a">>, <<"W","H","E","R","E">>, <<"t",".","b">>, <<"=">>, <<"?">>>>,
   <<<<"I","N","S","E","R","T">>, <<"I","N","T","O">>, <<"t">>, <<"(">>, <<"b">>, <<",">>, <<"a">>, <<")">>, <<"V","A","L","U","E","S">>, <<"(">>, <<"1">>, <<",">>, <<"2">>, <<")">>, <<"R","E","T","U","R","N","I","N","G">>, <<"a">>>>,
   <<<<"U","P","D","A","T","E">>, <<"t">>, <<"S","E","T">>, <<"b">>, <<"=">>, <<"1">>, <<",">>, <<"a">>, <<"=">>, <<"2">>, <<"W","H","E","R","E">>, <<"t",".","c">>, <<"=">>, <<"3">>>>,
   <<<<"U","P","D","A","T","E">>, <<"t">>, <<"S","E","T">>, <<"a">>, <<"=">>, <<"'",",","=","1","'">>>>,
   <<<<"D","E","L","E","T","E">>, <<"F","R","O","M">>, <<"t">>, <<"W","H","E","R","E">>, <<"t",".","a">>, <<"=">>, <<"?">>, <<"R","E","T","U","R","N","I","N","G">>, <<"*">>>>,
   <<<<"s","e","l","e","c","t">>, <<"*">>, <<"f","r","o","m">>, <<"t">>, <<"/","*","c","*","/">>, <<"w","h","e","r","e">>, <<BT,"O","r",BT>>, <<"=">>, <<"$","1">>, <<"a","n","d">>, <<"[","x","]">>, <<"=">>, <<":","i","d">>>>}

\* what is written between two tokens and at the two ends
CleanGaps == {<<" ">>, <<" ", " ">>, <<"\n", "\t">>}

OptIns ==
  {"NormalizeSelectColumns", "NormalizeJoinSyntax", "NormalizeOrderByAsc",
   "SortInsertColumns", "SortUpdateColumns", "RemoveReturningClause",
   "NormalizeTableQualifiers"}

\* no stage, the default stages, the default stages with one more stage, one
\* stage alone, and every stage
CleanConfigs ==
  {Only({}), DefaultOptions, Only(OptionNames)}
    \cup {With({o}) : o \in OptIns} \cup {Only({o}) : o \in OptionNames}

WriteClean(in) == in.gap \o Join(in.tokens, in.gap) \o in.gap

InitClean ==
  /\ input \in [tokens : CleanStatements, gap : CleanGaps]
  /\ options \in CleanConfigs
  /\ NormalizerIdle(WriteClean(input))

SpecClean == InitClean /\ [][NextNormalize]_vars

\* s has no whitespace at its ends, and no whitespace inside it but single
\* spaces
SingleSpaced(s) ==
  /\ s # <<>> => (s[1] \notin SpaceCh /\ s[Len(s)] \notin SpaceCh)
  /\ \A k \in DOMAIN s : s[k] \in SpaceCh => s[k] = " "
  /\ \A k \in 1..(Len(s) - 1) : ~(s[k] = " " /\ s[k + 1] = " ")

\* C14: for every configuration and every input, the output of Normalize has
\* no whitespace at its ends and every run of whitespace inside it is one
\* space.
C14_SingleSpaced == pc = "once" => SingleSpaced(result)

\* C14 for the configurations without the sort of UPDATE columns
C14_WithoutUpdateSort ==
  (pc = "once" /\ ~options["SortUpdateColumns"]) => SingleSpaced(result)

\* the statement as its tokens with one space between them
Canonical(in) == Join(in.tokens, <<" ">>)

\* texts of the statements that a stage rewrites
Targets(o) ==
  CASE o = "UnifyPlaceholders" -> {<<"$","1">>, <<":","i","d">>}
    [] o = "RemoveComments" -> {<<"/","*","c","*","/">>}
    [] o = "UppercaseKeywords" -> {<<"s","e","l","e","c","t">>, <<"a","n","d">>}
    [] o = "RemoveQuotes" -> {<<BT>>, <<"[">>, <<"]">>}
    [] o = "NormalizeSelectColumns" -> {<<"S","E","L","E","C","T"," ","a"," ",","," ","b"," ","F","R","O","M">>}
    [] o = "NormalizeJoinSyntax" -> {<<"I","N","N","E","R"," ","J","O","I","N">>}
    [] o = "NormalizeOrderByAsc" -> {<<" ","A","S","C">>}
    [] o = "SortInsertColumns" -> {<<"("," ","b"," ",","," ","a"," ",")"," ","V","A","L","U","E","S"," ","("," ","1"," ",","," ","2"," ",")">>}
    [] o = "SortUpdateColumns" -> {<<"b"," ","="," ","1"," ",","," ","a"," ","="," ","2">>, <<"a"," ","="," ","'",",","=","1","'">>}
    [] o = "RemoveReturningClause" -> {<<"R","E","T","U","R","N","I","N","G">>}
    [] o = "NormalizeTableQualifiers" -> {<<"t",".">>}

\* C15: a stage whose switch is off is not applied: the texts it would
\* rewrite (keywords in lower case, identifier quotes, placeholders,
\* comments, and the target of each stage that is off by default) are in
\* the output as often as in the statement, and with every switch off the
\* output is the statement with its whitespace runs collapsed and its ends
\* trimmed.
C15_SkippedStagesKeep ==
  pc = "once" =>
    /\ (\A o \in OptionNames : ~options[o]) => result = Canonical(input)
    /\ \A o \in OptionNames :
         ~options[o] =>
           \A t \in Targets(o) : Occurrences(result, t) = Occurrences(Canonical(input), t)

\* a statement with a RETURNING clause, written over several lines, has been
\* normalized with every switch off
C15_Witness ==
  /\ pc = "once" /\ options = Only({})
  /\ input.gap = <<"\n", "\t">>
  /\ Occurrences(result, <<"R","E","T","U","R","N","I","N","G">>) = 1

-----------------------------------------------------------------------------
(* INSERT statements with more or fewer values than columns.               *)

MismatchShapes ==
  {in \in UNION {[columns : {cs}, values : SeqsUpTo(InsertValues, MaxCols + 1) \ {<<>>}] :
                   cs \in ColumnLists} :
     Len(in.values) # Len(in.columns)}

InitMismatch ==
  /\ input \in MismatchShapes
  /\ options = With({"SortInsertColumns"})
  /\ NormalizerIdle(WriteInsert(input))

SpecMismatch == InitMismatch /\ [][NextNormalize]_vars

\* the number of items of a list written with commas between them
CommaItems(list) == Occurrences(Join(list, <<",", " ">>), <<",">>) + 1

\* C16: with the sort of INSERT columns enabled, an INSERT statement whose
\* column list and value list have different numbers of items between commas
\* is returned unchanged.
C16_MismatchUnchanged ==
  (pc = "once" /\ CommaItems(input.values) # CommaItems(input.columns)) => result = query

\* C16 for the statements whose values are written without parentheses
C16_PlainValues ==
  (pc = "once" /\ \A k \in DOMAIN input.values : input.values[k] \in {<<"?">>, <<"1">>})
    => result = query

-----------------------------------------------------------------------------
(* Identifiers in one and in two layers of delimiters.                     *)

QuoteStyles == {"backtick", "double", "bracket"}

\* an identifier in an outer layer of delimiters and, inside it, in no layer
\* or in a layer of another style
NestedTokens ==
  {tok \in [outer : QuoteStyles, inner : QuoteStyles \cup {"bare"}, word : {<<"x">>, <<"O", "r">>}] :
     tok.inner # tok.outer}

\* what is written inside the outer layer
InnerText(tok) == WriteToken([style |-> tok.inner, word |-> tok.word])

WriteNested(toks) ==
  Join([k \in DOMAIN toks |->
          WriteToken([style |-> toks[k].outer, word |-> InnerText(toks[k])])], <<" ">>)

InitNested ==
  /\ input \in SeqsUpTo(NestedTokens, MaxTokens)
  /\ options \in {DefaultOptions, Only({"RemoveQuotes"})}
  /\ NormalizerIdle(WriteNested(input))

SpecNested == InitNested /\ [][NextNormalize]_vars

\* C17: quote removal strips exactly one layer of delimiters: an identifier
\* in backticks, double quotes or brackets becomes the bare identifier, and
\* an identifier in two layers of different styles keeps its inner layer.
C17_OneLayerStripped ==
  pc = "once" => result = Join([k \in DOMAIN input |-> InnerText(input[k])], <<" ">>)

\* C17 for the identifiers in one layer
C17_SingleLayer ==
  (pc = "once" /\ \A k \in DOMAIN input : input[k].inner = "bare")
    => result = Join([k \in DOMAIN input |-> InnerText(input[k])], <<" ">>)

-----------------------------------------------------------------------------
(* SELECT statements with column lists of several kinds.                   *)

\* a star, bare columns, a qualified column, a column with an alias, function
\* calls, a function call in which FROM is written, and a list on two lines
ColumnTexts == {<<"*">>,
                <<"a",","," ","b">>,
                <<"t",".","a">>,
                <<"a"," ","A","S"," ","x">>,
                <<"C","O","U","N","T","(","*",")">>,
                <<"f","(","a",","," ","b",")">>,
                <<"E","X","T","R","A","C","T","(","Y","E","A","R"," ","F","R","O","M"," ","d",")">>,
                <<"a",",","\n","b">>}

\* what follows the column list: nothing, a FROM clause, and a FROM clause
\* with a condition
SelectTails == {<<>>, <<" ","F","R","O","M"," ","t">>, <<" ","F","R","O","M"," ","t"," ","W","H","E","R","E"," ","a"," ","="," ","?">>}

SelectParts == [distinct : BOOLEAN, list : ColumnTexts, tail : SelectTails]

\* one SELECT, or two with UNION between them
ColumnShapes ==
  {<<p>> : p \in SelectParts}
    \cup {<<p, q>> : p \in {p \in SelectParts : p.tail # <<>>},
                     q \in {q \in SelectParts : q.list = <<"a",","," ","b">> /\ q.tail # <<>>}}

WriteSelectPart(p, list) ==
  <<"S","E","L","E","C","T"," ">> \o (IF p.distinct THEN <<"D","I","S","T","I","N","C","T"," ">> ELSE <<>>) \o list \o p.tail

WriteColumns(parts) ==
  Join([k \in DOMAIN parts |-> WriteSelectPart(parts[k], parts[k].list)], <<" ","U","N","I","O","N"," ">>)

InitColumns ==
  /\ input \in ColumnShapes
  /\ options \in {With({"NormalizeSelectColumns"}), Only({"NormalizeSelectColumns"})}
  /\ NormalizerIdle(WriteColumns(input))

SpecColumns == InitColumns /\ [][NextNormalize]_vars

\* where in text the first FROM after whitespace is written (0: nowhere)
FromAt(text) == Index(text, <<" ","F","R","O","M">>)

\* the column list of a SELECT, from its SELECT [DISTINCT] to the first FROM
\* that follows, replaced by a star; the SELECT as it is when no FROM follows
\* (whitespace is normalized before the collapsing)
Collapsed(p) ==
  IF FromAt(p.list) > 0
  THEN WriteSelectPart(p, <<"*">> \o SubSeq(p.list, FromAt(p.list), Len(p.list)))
  ELSE IF p.tail = <<>> THEN WriteSelectPart(p, normalizeWhitespace(p.list))
  ELSE WriteSelectPart(p, <<"*">>)

\* C18: with SELECT column collapsing enabled, each shortest span from a
\* SELECT [DISTINCT] to the next FROM has its column list replaced by a star,
\* DISTINCT is kept, the text from FROM onwards is unchanged, whatever the
\* column list is; a statement in which no FROM follows a SELECT is returned
\* unchanged.
C18_ColumnsCollapsed ==
  pc = "once" => result = Join([k \in DOMAIN input |-> Collapsed(input[k])], <<" ","U","N","I","O","N"," ">>)

\* a SELECT DISTINCT of a function call has been collapsed, and a SELECT
\* without FROM has been returned as it was
C18_Witness ==
  /\ pc = "once" /\ Len(input) = 1
  /\ \/ /\ input[1].distinct /\ input[1].list = <<"f","(","a",","," ","b",")">>
        /\ result = <<"S","E","L","E","C","T"," ","D","I","S","T","I","N","C","T"," ","*"," ","F","R","O","M"," ","t"," ","W","H","E","R","E"," ","a"," ","="," ","?">>
     \/ /\ input[1].tail = <<>> /\ input[1].list = <<"a",","," ","b">>
        /\ result = query

-----------------------------------------------------------------------------
(* INSERT, UPDATE and DELETE statements with and without RETURNING.        *)

\* a placeholder, a number, and a string literal in which the word
\* returning is written
ReturningValues == {<<"?">>, <<"1">>, <<"'","n","o","t"," ","r","e","t","u","r","n","i","n","g"," ","i","t","'">>}

\* no clause, and clauses with a column, a star, a column list and
\* expressions, the keyword in three letter cases
ReturningClauses == {<<>>, <<"R","E","T","U","R","N","I","N","G"," ","i","d">>,
                     <<"r","e","t","u","r","n","i","n","g"," ","*">>,
                     <<"R","e","t","u","r","n","i","n","g"," ","i","d",","," ","n","a","m","e">>,
                     <<"R","E","T","U","R","N","I","N","G"," ","a"," ","+"," ","1",","," ","l","o","w","e","r","(","b",")">>}

ReturningShapes == [verb : {"insert", "update", "delete"}, value : ReturningValues, clause : ReturningClauses]

\* the statement without its RETURNING clause
WriteModify(in) ==
  CASE in.verb = "insert" -> <<"I","N","S","E","R","T"," ","I","N","T","O"," ","t"," ","(","a",")"," ","V","A","L","U","E","S"," ","(">> \o in.value \o <<")">>
    [] in.verb = "update" -> <<"U","P","D","A","T","E"," ","t"," ","S","E","T"," ","a"," ","="," ">> \o in.value \o <<" ","W","H","E","R","E"," ","b"," ","="," ","?">>
    [] in.verb = "delete" -> <<"D","E","L","E","T","E"," ","F","R","O","M"," ","t"," ","W","H","E","R","E"," ","a"," ","="," ">> \o in.value

WriteReturning(in) ==
  WriteModify(in) \o (IF in.clause = <<>> THEN <<>> ELSE <<" ">> \o in.clause)

InitReturning ==
  /\ input \in ReturningShapes
  /\ options \in {With({"RemoveReturningClause"}), Only({"RemoveReturningClause"})}
  /\ NormalizerIdle(WriteReturning(input))

SpecReturning == InitReturning /\ [][NextNormalize]_vars

\* what the statement without its RETURNING clause normalizes to when the
\* stage is off
WithoutReturning(opts, in) ==
  NormalizeOutcomes([opts EXCEPT !["RemoveReturningClause"] = FALSE], WriteModify(in))

\* C19: with RETURNING removal enabled, an INSERT, UPDATE or DELETE statement
\* ending in a RETURNING clause normalizes to the same text as the statement
\* without that clause, whatever the letter case of the keyword, and a
\* statement without a RETURNING clause is unchanged by the stage.
C19_ReturningRemoved ==
  pc = "once" => result \in WithoutReturning(options, input)

\* C19 for the statements in which the word returning is written in the
\* RETURNING clause only
C19_WithoutLiterals ==
  (pc = "once" /\ ~Contains(ToUpper(input.value), <<"R","E","T","U","R","N","I","N","G">>))
    => result \in WithoutReturning(options, input)

-----------------------------------------------------------------------------
(* SELECT statements with ORDER BY.                                        *)

MaxItems == 2

\* a column of ORDER BY is written with no direction, with ASC in two letter
\* cases, or with DESC
Directions == {<<>>, <<"A","S","C">>, <<"a","s","c">>, <<"D","E","S","C">>}

\* what follows the ORDER BY clause: the end of the statement, the clauses
\* before which ASC is removed, the closing parenthesis of a subquery, and
\* NULLS LAST, before which it is not
OrderTails == {<<>>, <<" ","L","I","M","I","T"," ","1">>, <<" ","O","F","F","S","E","T"," ","5">>, <<" ","H","A","V","I","N","G"," ","b"," ",">"," ","1">>, <<" ","U","N","I","O","N"," ","S","E","L","E","C","T"," ","1">>, <<")"," ","s">>, <<" ","N","U","L","L","S"," ","L","A","S","T">>}

\* a placeholder, and a string literal in which the word asc is written
\* before a comma
OrderValues == {<<"?">>, <<"'","x"," ","a","s","c",","," ","y","'">>}

OrderShapes == [value : OrderValues, dirs : SeqsUpTo(Directions, MaxItems) \ {<<>>}, tail : OrderTails]

OrderColumns == <<"a", "b", "c", "d">>

WriteItem(k, dir) == <<OrderColumns[k]>> \o (IF dir = <<>> THEN <<>> ELSE <<" ">> \o dir)

WriteOrder(in) ==
  (IF in.tail = <<")"," ","s">> THEN <<"S","E","L","E","C","T"," ","*"," ","F","R","O","M"," ","(">> ELSE <<>>)
    \o <<"S","E","L","E","C","T"," ","*"," ","F","R","O","M"," ","t"," ","W","H","E","R","E"," ","a"," ","="," ">> \o in.value \o <<" ","O","R","D","E","R"," ","B","Y"," ">>
    \o Join([k \in DOMAIN in.dirs |-> WriteItem(k, in.dirs[k])], <<","," ">>)
    \o in.tail

InitOrder ==
  /\ input \in OrderShapes
  /\ options \in {With({"NormalizeOrderByAsc"}), Only({"NormalizeOrderByAsc"})}
  /\ NormalizerIdle(WriteOrder(input))

SpecOrder == InitOrder /\ [][NextNormalize]_vars

\* is the k-th column followed by a comma, the end of the statement, LIMIT,
\* OFFSET, HAVING, UNION or a closing parenthesis
Removable(in, k) == k < Len(in.dirs) \/ in.tail # <<" ","N","U","L","L","S"," ","L","A","S","T">>

\* the statement with every ASC that is so followed taken from its ORDER BY
WithoutAsc(in) ==
  [in EXCEPT !.dirs = [k \in DOMAIN in.dirs |->
     IF ToUpper(in.dirs[k]) = <<"A","S","C">> /\ Removable(in, k) THEN <<>> ELSE in.dirs[k]]]

\* what that statement normalizes to when the stage is off
AscRemoved(opts, in) ==
  NormalizeOutcomes([opts EXCEPT !["NormalizeOrderByAsc"] = FALSE], WriteOrder(WithoutAsc(in)))

\* C20: with ASC removal enabled, every ASC qualifier in an ORDER BY clause
\* that is followed by a comma, the end of the statement, LIMIT, OFFSET,
\* HAVING, UNION or a closing parenthesis is removed, every DESC qualifier is
\* preserved, and the remaining text is otherwise unchanged apart from
\* whitespace cleanup.
C20_AscRemoved ==
  pc = "once" => result \in AscRemoved(options, input)

\* C20 for the statements in which asc is written in the ORDER BY clause only
C20_WithoutLiterals ==
  (pc = "once" /\ input.value = <<"?">>) => result \in AscRemoved(options, input)

-----------------------------------------------------------------------------
(* query.go: the kind of operation of a query.                             *)

OperationSelect == "SELECT"
OperationInsert == "INSERT"
OperationUpdate == "UPDATE"
OperationDelete == "DELETE"
OperationOther == "OTHER"

\* the first n characters of q as they are written
prefixAsWritten(q, n) == SubSeq(q, 1, n)

\* the first n characters of q, the letters a to z in upper case
prefixOf(q, n) == [i \in 1..n |-> ToUpperCh(q[i])]

\* detectOperation
detectOperation(q) ==
  IF Len(q) < 6 THEN OperationOther
  ELSE CASE prefixOf(q, 6) = <<"S","E","L","E","C","T">> -> OperationSelect
         [] prefixOf(q, 6) = <<"I","N","S","E","R","T">> -> OperationInsert
         [] prefixOf(q, 6) = <<"U","P","D","A","T","E">> -> OperationUpdate
         [] prefixOf(q, 6) = <<"D","E","L","E","T","E">> -> OperationDelete
         [] OTHER -> OperationOther

-----------------------------------------------------------------------------
(* detectOperation is called once on a raw text.                           *)

\* the four verbs, their first five letters, and other first words
FirstWords == {<<"S","E","L","E","C","T">>, <<"I","N","S","E","R","T">>, <<"U","P","D","A","T","E">>, <<"D","E","L","E","T","E">>, <<"S","E","L","E","C">>, <<"D","E","L","E","T">>, <<"C","R","E","A","T","E">>, <<"W","I","T","H"," ","x">>, <<"E","X","P","L","A","I","N">>}

\* as written, in lower case, and with every second letter in lower case
Casings == {"upper", "lower", "mixed"}

\* what is written before the first word: nothing, whitespace, a comment
Leads == {<<>>, <<" ">>, <<"\n">>, <<"/","*","c","*","/">>, <<"-","-"," ","c","\n">>}

\* what is written after it: nothing, the rest of a statement, one more letter
Rests == {<<>>, <<" ","*"," ","F","R","O","M"," ","t">>, <<"S">>}

RawShapes == [lead : Leads, word : FirstWords, casing : Casings, rest : Rests]

Cased(word, casing) ==
  [k \in DOMAIN word |->
     IF casing = "lower" \/ (casing = "mixed" /\ k % 2 = 0) THEN ToLowerCh(word[k]) ELSE word[k]]

WriteRaw(in) == in.lead \o Cased(in.word, in.casing) \o in.rest

InitDetect ==
  /\ input \in RawShapes
  /\ options = DefaultOptions
  /\ NormalizerIdle(WriteRaw(input))

\* detectOperation(query)
DetectCall ==
  /\ pc = "idle"
  /\ result' = detectOperation(query)
  /\ pc' = "detected"
  /\ UNCHANGED <<options, input, query, result2, expected, actual, mode, cmp>>
  /\ UNCHANGED capture

NextDetect == DetectCall

SpecDetect == InitDetect /\ [][NextDetect]_vars

\* the verb the text begins with, if it begins with one
VerbOf(in) ==
  IF in.lead = <<>> /\ in.word \in {<<"S","E","L","E","C","T">>, <<"I","N","S","E","R","T">>, <<"U","P","D","A","T","E">>, <<"D","E","L","E","T","E">>}
  THEN CASE in.word = <<"S","E","L","E","C","T">> -> OperationSelect
         [] in.word = <<"I","N","S","E","R","T">> -> OperationInsert
         [] in.word = <<"U","P","D","A","T","E">> -> OperationUpdate
         [] in.word = <<"D","E","L","E","T","E">> -> OperationDelete
  ELSE OperationOther

\* C21: detectOperation returns SELECT, INSERT, UPDATE or DELETE exactly when
\* the first six characters of the raw text, compared without regard to
\* letter case, spell that verb, and OTHER in every other case, including
\* texts shorter than six characters and texts that begin with whitespace or
\* a comment before the verb.
C21_OperationDetected ==
  pc = "detected" => result = VerbOf(input)

\* a verb in mixed case has been detected, and a text of five characters and
\* a verb behind a comment have given OTHER
C21_Witness ==
  /\ pc = "detected"
  /\ \/ input.casing = "mixed" /\ input.rest = <<"S">> /\ result = OperationUpdate
     \/ Len(query) = 5 /\ result = OperationOther
     \/ input.lead = <<"/","*","c","*","/">> /\ input.word = <<"D","E","L","E","T","E">> /\ result = OperationOther

-----------------------------------------------------------------------------
(* capturer.go: the driver that records the queries run through it.        *)

\* rawQuery
rawQuery(q, args) == [query |-> q, args |-> args]

\* a driver that puts a new query before the recorded ones
recordQueryFirst(qs, q, args) == <<rawQuery(q, args)>> \o qs

\* capturingDriver.recordQuery, between Lock and Unlock
recordQuery(qs, q, args) == Append(qs, rawQuery(q, args))

\* the Query that capturingDriver.Queries makes of a rawQuery
Query(rq, normalized) ==
  [Raw |-> rq.query, Normalized |-> normalized, Args |-> rq.args,
   Operation |-> detectOperation(rq.query)]

\* The loop of capturingDriver.Queries from index i on: every list it can
\* return.  normalize[q] is the set of outcomes of d.normalizer.Normalize(q)
\* (Normalize has more than one outcome for some queries).
RECURSIVE queriesFrom(_, _, _)
queriesFrom(normalize, qs, i) ==
  IF i > Len(qs) THEN {<<>>}
  ELSE {<<Query(qs[i], n)>> \o rest :
          n \in normalize[qs[i].query], rest \in queriesFrom(normalize, qs, i + 1)}

\* capturingDriver.Queries
Queries(normalize, qs) == queriesFrom(normalize, qs, 1)

\* atomic.AddInt64 that adds nothing
AddInt64Lost(counter, delta) == counter

\* atomic.AddInt64(&driverCounter, 1): the new value
AddInt64(counter, delta) == counter + delta

\* the name register makes of the counter: "migratiorm_%d"
DriverName(n) == <<"migratiorm_", n>>

-----------------------------------------------------------------------------
(* The root package: Migratiorm and its comparator.                        *)

\* the Normalized fields of a list of Query
Normalizeds(qs) == [k \in DOMAIN qs |-> qs[k].Normalized]

\* comparator.Compare of options.go: the comparison of
\* internal/comparator on the Normalized fields
comparatorCompare(m, exp, act) == Compare(m, Normalizeds(exp), Normalizeds(act))

\* an assertion that uses the comparator of the instance whatever is passed
comparatorOfInstance(configured, ignoreOrder) == configured

\* AssertWithOptions: the mode of the comparator it compares with
comparatorMode(configured, ignoreOrder) ==
  IF ignoreOrder THEN CompareUnordered ELSE configured

\* an assignment that appends to the stored list
storedAppended(old, new) == old \o new

\* m.expected = cap.Queries() and m.actual = cap.Queries(): the stored list
stored(old, new) == new

-----------------------------------------------------------------------------
(* A test that drives a Migratiorm: captures with Expect and Actual, whose *)
(* callbacks run queries, and assertions.                                  *)

MaxCaptures == 2
MaxAsserts == 2
MaxRun == 2

\* the queries the callbacks run, with their bind values: the callback of
\* Expect writes placeholders as $n, the callback of Actual as ?, so that two
\* of the texts differ and have the same canonical form
Submissions ==
  [expect |-> {rawQuery(<<"s","e","l","e","c","t"," ","$","2",","," ","$","1">>, <<2, 1>>), rawQuery(<<"U","P","D","A","T","E"," ","t"," ","S","E","T"," ","a"," ","="," ","?">>, <<7>>)},
   actual |-> {rawQuery(<<"S","E","L","E","C","T"," ","?",","," ","?">>, <<1, 2>>), rawQuery(<<"U","P","D","A","T","E"," ","t"," ","S","E","T"," ","a"," ","="," ","?">>, <<7>>)}]

\* the Normalizer of the instance, made by New() from the default options,
\* on the texts the callbacks run
Normalizer ==
  [q \in {s.query : s \in Submissions.expect \cup Submissions.actual} |->
     NormalizeOutcomes(DefaultOptions, q)]

InitFacade ==
  /\ pc = "idle"
  /\ mode \in {CompareStrict, CompareUnordered}
  /\ options = DefaultOptions
  /\ expected = <<>> /\ actual = <<>> /\ cmp = NoResult
  /\ input = <<>> /\ query = <<>> /\ result = <<>> /\ result2 = <<>>
  /\ NoCapture

\* newCapturer in Expect (side "expect") or in Actual (side "actual"): the
\* driver is registered, sql.Open returns a DB, and the callback starts
NewCapturer(side) ==
  /\ pc = "idle"
  /\ Len(drivers) < MaxCaptures
  /\ driverCounter' = AddInt64(driverCounter, 1)
  /\ drivers' = Append(drivers, [name |-> DriverName(driverCounter'), opened |-> TRUE])
  /\ queries' = <<>>
  /\ input' = <<>>
  /\ pc' = side
  /\ UNCHANGED <<options, query, result, result2, expected, actual, mode, cmp, mu, failed, procs>>

\* the callback runs a query: QueryContext, ExecContext, Stmt.Exec and
\* Stmt.Query all call recordQuery
Execute(q) ==
  /\ pc \in {"expect", "actual"}
  /\ q \in Submissions[pc]
  /\ Len(queries) < MaxRun
  /\ queries' = recordQuery(queries, q.query, q.args)
  /\ input' = Append(input, q)
  /\ UNCHANGED <<pc, options, query, result, result2, expected, actual, mode, cmp,
                 mu, driverCounter, drivers, failed, procs>>

\* Expect after its callback has returned; the capturer is closed and dropped
Expect ==
  /\ pc = "expect"
  /\ \E qs \in Queries(Normalizer, queries) : expected' = stored(expected, qs)
  /\ queries' = <<>>
  /\ input' = <<>>
  /\ pc' = "idle"
  /\ UNCHANGED <<options, query, result, result2, actual, mode, cmp,
                 mu, driverCounter, drivers, failed, procs>>

\* Actual after its callback has returned; the capturer is closed and dropped
Actual ==
  /\ pc = "actual"
  /\ \E qs \in Queries(Normalizer, queries) : actual' = stored(actual, qs)
  /\ queries' = <<>>
  /\ input' = <<>>
  /\ pc' = "idle"
  /\ UNCHANGED <<options, query, result, result2, expected, mode, cmp,
                 mu, driverCounter, drivers, failed, procs>>

\* AssertWithOptions(t) and AssertWithOptions(t, IgnoreOrder())
AssertWithOptions(ignoreOrder) ==
  /\ pc = "idle"
  /\ Len(failed) < MaxAsserts
  /\ failed' = Append(failed,
       [ignoreOrder |-> ignoreOrder,
        reported |-> ~comparatorCompare(comparatorMode(mode, ignoreOrder), expected, actual).Equal])
  /\ UNCHANGED <<pc, options, input, query, result, result2, expected, actual, mode, cmp,
                 queries, mu, driverCounter, drivers, procs>>

NextFacade ==
  \/ \E side \in {"expect", "actual"} : NewCapturer(side)
  \/ \E q \in Submissions.expect \cup Submissions.actual : Execute(q)
  \/ Expect
  \/ Actual
  \/ \E ignoreOrder \in BOOLEAN : AssertWithOptions(ignoreOrder)

SpecFacade == InitFacade /\ [][NextFacade]_vars

\* the canonical form and the operation of the queries the callbacks run
CanonicalOf(q) ==
  CASE q = <<"s","e","l","e","c","t"," ","$","2",","," ","$","1">> -> <<"S","E","L","E","C","T"," ","?",","," ","?">>
    [] q = <<"S","E","L","E","C","T"," ","?",","," ","?">> -> <<"S","E","L","E","C","T"," ","?",","," ","?">>
    [] q = <<"U","P","D","A","T","E"," ","t"," ","S","E","T"," ","a"," ","="," ","?">> -> <<"U","P","D","A","T","E"," ","t"," ","S","E","T"," ","a"," ","="," ","?">>

OperationOf(q) == IF q = <<"U","P","D","A","T","E"," ","t"," ","S","E","T"," ","a"," ","="," ","?">> THEN OperationUpdate ELSE OperationSelect

\* list has one Query for each query run, in the order they were run
Captured(list, run) ==
  /\ Len(list) = Len(run)
  /\ \A i \in DOMAIN run :
       /\ list[i].Raw = run[i].query
       /\ list[i].Args = run[i].args
       /\ list[i].Normalized = CanonicalOf(run[i].query)
       /\ list[i].Operation = OperationOf(run[i].query)

\* C22: after a capture callback that runs the queries q1..qn in that order,
\* the captured list has exactly n entries in the order of execution; entry i
\* has the text of qi as submitted as Raw, its bind values in the order of
\* submission as Args, Normalize(Raw) as Normalized and
\* detectOperation(Raw) as Operation.
C22_CapturedInOrder ==
  [][/\ (pc = "expect" /\ pc' = "idle") => Captured(expected', input)
     /\ (pc = "actual" /\ pc' = "idle") => Captured(actual', input)]_vars

\* a callback has run two different queries and its capture has been stored
C22_Witness ==
  /\ pc = "idle" /\ Len(actual) = 2
  /\ actual[1].Raw = <<"U","P","D","A","T","E"," ","t"," ","S","E","T"," ","a"," ","="," ","?">> /\ actual[2].Raw = <<"S","E","L","E","C","T"," ","?",","," ","?">>
  /\ actual[2].Args = <<1, 2>> /\ actual[2].Normalized = <<"S","E","L","E","C","T"," ","?",","," ","?">>
  /\ actual[1].Operation = OperationUpdate

\* the same canonical texts in the same order
SameSequence(exp, act) == Normalizeds(exp) = Normalizeds(act)

\* the same canonical texts, each as often in one list as in the other
SameBag(exp, act) ==
  /\ Len(exp) = Len(act)
  /\ \A k \in DOMAIN exp :
       Count(Normalizeds(exp), exp[k].Normalized) = Count(Normalizeds(act), exp[k].Normalized)

\* C23: AssertWithOptions reports a test failure iff comparing the stored
\* expected and actual sequences under the effective mode is not Equal; the
\* effective mode is UNORDERED when IgnoreOrder is passed and the mode
\* configured at construction otherwise, and passing IgnoreOrder to one
\* assertion does not change the mode used by later assertions.
C23_AssertReports ==
  [][/\ mode' = mode
     /\ Len(failed') > Len(failed) =>
          LET made == failed'[Len(failed')]
          IN made.reported <=>
               IF made.ignoreOrder \/ mode = CompareUnordered
               THEN ~SameBag(expected, actual)
               ELSE ~SameSequence(expected, actual)]_vars

\* under the STRICT mode an assertion with IgnoreOrder has passed and a later
\* assertion without it has reported, on lists that hold the same texts in
\* different orders
C23_Witness ==
  /\ mode = CompareStrict /\ pc = "idle"
  /\ failed = <<[ignoreOrder |-> TRUE, reported |-> FALSE], [ignoreOrder |-> FALSE, reported |-> TRUE]>>
  /\ Len(expected) = 2 /\ SameBag(expected, actual) /\ ~SameSequence(expected, actual)

-----------------------------------------------------------------------------
(* The same test when sql.Open can return an error to newCapturer.         *)

\* Expect or Actual whose newCapturer returns an error: the driver has been
\* registered, sql.Open gives no DB, and the call returns before its callback
OpenFails ==
  /\ pc = "idle"
  /\ Len(drivers) < MaxCaptures
  /\ driverCounter' = AddInt64(driverCounter, 1)
  /\ drivers' = Append(drivers, [name |-> DriverName(driverCounter'), opened |-> FALSE])
  /\ UNCHANGED <<pc, options, input, query, result, result2, expected, actual, mode, cmp,
                 queries, mu, failed, procs>>

NextOpenFails == NextFacade \/ OpenFails

SpecOpenFails == InitFacade /\ [][NextOpenFails]_vars

\* has a capture failed
CaptureFailed == \E k \in DOMAIN drivers : ~drivers[k].opened

\* C24: if creating the capture connection fails inside Expect or Actual, the
\* error is stored and is reported when Assert runs: an assertion made after
\* a failed capture does not pass silently.
C24_FailedCaptureReported ==
  [][(CaptureFailed /\ Len(failed') > Len(failed)) => failed'[Len(failed')].reported]_vars

\* without a failed capture every assertion reports as C23 says; what a
\* failed capture leaves behind is no error state: the stored lists, the mode
\* and the assertions made are as before the call
C24_NothingStored ==
  [][OpenFails => UNCHANGED <<expected, actual, mode, failed, cmp>>]_vars
-----------------------------------------------------------------------------
(* UPDATE statements without WHERE that end in a RETURNING clause.         *)

UpdateValues == {<<"?">>, <<"1">>}

UpdateReturnings == {<<" ","R","E","T","U","R","N","I","N","G"," ","i","d">>,
                     <<" ","r","e","t","u","r","n","i","n","g"," ","*">>,
                     <<" ","R","E","T","U","R","N","I","N","G"," ","i","d",","," ","n","a","m","e">>}

UpdateReturningShapes ==
  UNION {[columns : {cs}, values : [1..Len(cs) -> UpdateValues], where : {<<>>},
          clause : UpdateReturnings] : cs \in ColumnLists}

InitUpdateReturning ==
  /\ input \in UpdateReturningShapes
  /\ options = With({"SortUpdateColumns", "RemoveReturningClause"})
  /\ NormalizerIdle(WriteUpdate(input) \o input.clause)

SpecUpdateReturning == InitUpdateReturning /\ [][NextNormalize]_vars

\* C25: with UPDATE column sort and RETURNING removal both enabled, an UPDATE
\* statement without WHERE that ends in a RETURNING clause normalizes to what
\* the same statement without the RETURNING clause normalizes to: every SET
\* assignment is kept and the assignments are sorted by column name.
C25_SortedWithoutReturning ==
  pc = "once" =>
    /\ result \in NormalizeOutcomes(options, WriteUpdate(input))
    /\ result = WriteUpdate(Sorted(input))

\* C25 for the statements whose last assignment is also the last in column
\* order and whose RETURNING clause has no comma
C25_LastInOrder ==
  (/\ pc = "once"
   /\ \A k \in DOMAIN input.columns :
        k # Len(input.columns) => StrLess(input.columns[k], input.columns[Len(input.columns)])
   /\ ~Contains(input.clause, <<",">>))
    => /\ result \in NormalizeOutcomes(options, WriteUpdate(input))
       /\ result = WriteUpdate(Sorted(input))
-----------------------------------------------------------------------------
(* UPDATE statements with text before the UPDATE keyword, and statements   *)
(* that are no UPDATE.                                                     *)

UpdateLeads == {<<>>, <<"E","X","P","L","A","I","N"," ">>,
                <<"W","I","T","H"," ","x"," ","A","S"," ","(","S","E","L","E","C","T"," ","y"," ","F","R","O","M"," ","u",")"," ">>}

OtherStatements == {<<"S","E","L","E","C","T"," ","b",","," ","a"," ","F","R","O","M"," ","t">>,
                    <<"D","E","L","E","T","E"," ","F","R","O","M"," ","t"," ","W","H","E","R","E"," ","b"," ","="," ","?">>,
                    <<"U","P","D","A","T","E"," ","t">>}

FramedShapes ==
  UNION {[kind : {"update"}, lead : UpdateLeads, columns : {cs},
          values : [1..Len(cs) -> UpdateValues], where : Wheres] : cs \in ColumnLists}
    \cup [kind : {"other"}, lead : OtherStatements, columns : {<<>>}, values : {<<>>}, where : {<<>>}]

WriteFramed(in) ==
  IF in.kind = "update" THEN in.lead \o WriteUpdate(in) ELSE in.lead

InitFramed ==
  /\ input \in FramedShapes
  /\ options \in {With({"SortUpdateColumns"}), Only({"SortUpdateColumns"})}
  /\ NormalizerIdle(WriteFramed(input))

SpecFramed == InitFramed /\ [][NextNormalize]_vars

\* the text begins with lead and ends with tail
Framed(text, lead, tail) ==
  /\ Len(text) >= Len(lead) + Len(tail)
  /\ SubSeq(text, 1, Len(lead)) = lead
  /\ SubSeq(text, Len(text) - Len(tail) + 1, Len(text)) = tail

\* C26: UPDATE column sort changes only the SET clause: the text before the
\* UPDATE keyword and the text from WHERE onwards are the same in the output,
\* and a query without the UPDATE t SET shape is returned unchanged.
C26_OnlySetClause ==
  pc = "once" =>
    IF input.kind = "update"
      THEN Framed(result, input.lead \o <<"U","P","D","A","T","E"," ","t"," ","S","E","T"," ">>, input.where)
      ELSE result = query

\* C26 for the queries that begin with the UPDATE keyword or are no UPDATE
C26_WithoutLead ==
  (pc = "once" /\ (input.kind = "update" => input.lead = <<>>)) =>
    IF input.kind = "update"
      THEN Framed(result, input.lead \o <<"U","P","D","A","T","E"," ","t"," ","S","E","T"," ">>, input.where)
      ELSE result = query
-----------------------------------------------------------------------------
(* What Expect and Actual do to the two stored lists.                      *)

\* a capture by Expect or by Actual returns in this step
Returns(side) == pc = side /\ pc' = "idle"

\* C29: in any sequence of Expect and Actual calls, each Expect replaces the
\* stored expected list with exactly the queries run during that call (the
\* earlier list is discarded, not appended to) and leaves the stored actual
\* list unchanged, each Actual does the same for the actual list, and no other
\* step changes either list.
C29_ReplacesOwnList ==
  [][/\ Returns("expect") => (Captured(expected', input) /\ actual' = actual)
     /\ Returns("actual") => (Captured(actual', input) /\ expected' = expected)
     /\ ~(Returns("expect") \/ Returns("actual")) => (expected' = expected /\ actual' = actual)]_vars

\* an assertion found the lists different and a later one found them equal
\* and both are empty now: a list that held queries was replaced by the
\* capture of a call that ran none
C29_Witness ==
  /\ pc = "idle"
  /\ Len(failed) = 2 /\ failed[1].reported /\ ~failed[2].reported
  /\ expected = <<>> /\ actual = <<>>
-----------------------------------------------------------------------------
(* The two modes on the same pair of sequences, and the unordered mode on  *)
(* the pair exchanged: after the STRICT comparison in cmp, result holds    *)
(* the UNORDERED comparison and result2 the UNORDERED comparison of the    *)
(* actual sequence as expected and the expected sequence as actual.        *)

InitRelate ==
  /\ pc = "idle"
  /\ expected \in SeqsUpTo(Canon, MaxQueries)
  /\ actual \in SeqsUpTo(Canon, MaxQueries)
  /\ mode = CompareStrict
  /\ cmp = NoResult
  /\ options = DefaultOptions
  /\ input = <<>> /\ query = <<>> /\ result = NoResult /\ result2 = NoResult
  /\ NoCapture

\* comparator.New(CompareUnordered).Compare(expected, actual)
CompareUnorderedCall ==
  /\ pc = "compared"
  /\ result' = Compare(CompareUnordered, expected, actual)
  /\ pc' = "unordered"
  /\ UNCHANGED <<options, input, query, result2, expected, actual, mode, cmp>>
  /\ UNCHANGED capture

\* comparator.New(CompareUnordered).Compare(actual, expected)
CompareExchangedCall ==
  /\ pc = "unordered"
  /\ result2' = Compare(CompareUnordered, actual, expected)
  /\ pc' = "exchanged"
  /\ UNCHANGED <<options, input, query, result, expected, actual, mode, cmp>>
  /\ UNCHANGED capture

NextRelate == CompareCall \/ CompareUnorderedCall \/ CompareExchangedCall

SpecRelate == InitRelate /\ [][NextRelate]_vars

\* C30: for all sequences E and A of canonical strings, if the STRICT
\* comparison of E and A is Equal then the UNORDERED comparison of E and A is
\* Equal, and UNORDERED equality is symmetric: comparing E with A and A with
\* E give the same Equal.
C30_ModesRelated ==
  /\ (pc \in {"unordered", "exchanged"} /\ cmp.Equal) => result.Equal
  /\ pc = "exchanged" => (result.Equal = result2.Equal)

\* C30 witness: two sequences of several strings, the same in STRICT mode,
\* compared in UNORDERED mode both ways
C30_Witness ==
  /\ pc = "exchanged"
  /\ Len(expected) >= 2 /\ expected[1] # expected[2]
  /\ cmp.Equal /\ result.Equal /\ result2.Equal
-----------------------------------------------------------------------------
(* Goroutines that run queries through one capture connection while        *)
(* another goroutine calls Queries().  A goroutine is in procs with its    *)
(* position pc, the number done of calls of recordQuery it has returned    *)
(* from, the slice header local it read for append, and, for the reader,   *)
(* the list snapshot that Queries() returned with the number seen of       *)
(* recordings that had returned when the list was made.                    *)

MaxWorkers == 2

Workers == 1..MaxWorkers
Reader == MaxWorkers + 1

\* a mutex that never blocks
mutexIgnored(m) == TRUE

\* sync.Mutex: Lock returns when no goroutine holds the mutex
mutexFree(m) == m = "free"

\* the k-th query of goroutine g, with bind values that name the run
Submitted(g, k) ==
  rawQuery(IF k % 2 = 1 THEN <<"s","e","l","e","c","t"," ","$","2",","," ","$","1">>
           ELSE <<"U","P","D","A","T","E"," ","t"," ","S","E","T"," ","a"," ","="," ","?">>, <<g, k>>)

InitConcurrent ==
  /\ pc = "running"
  /\ mode = CompareStrict /\ options = DefaultOptions
  /\ expected = <<>> /\ actual = <<>> /\ cmp = NoResult
  /\ input = <<>> /\ query = <<>> /\ result = <<>> /\ result2 = <<>>
  /\ queries = <<>> /\ mu = "free" /\ driverCounter = 1
  /\ drivers = <<[name |-> DriverName(1), opened |-> TRUE]>>
  /\ failed = <<>>
  /\ procs = [g \in {Reader} \cup Workers |->
                [pc |-> "ready", done |-> 0, local |-> <<>>, snapshot |-> <<>>, seen |-> 0]]

Shared == <<pc, options, input, query, result, result2, expected, actual, mode, cmp,
            driverCounter, drivers, failed>>

\* recordQuery, d.mu.Lock()
RecordLock(g) ==
  /\ procs[g].pc = "ready" /\ procs[g].done < MaxRun
  /\ mutexFree(mu)
  /\ mu' = "held"
  /\ procs' = [procs EXCEPT ![g].pc = "locked"]
  /\ UNCHANGED <<queries, Shared>>

\* recordQuery, append: the slice d.queries is read
RecordLoad(g) ==
  /\ procs[g].pc = "locked"
  /\ procs' = [procs EXCEPT ![g].pc = "loaded", ![g].local = queries]
  /\ UNCHANGED <<queries, mu, Shared>>

\* recordQuery, append: the slice with the new element is assigned to d.queries
RecordStore(g) ==
  /\ procs[g].pc = "loaded"
  /\ queries' = recordQuery(procs[g].local, Submitted(g, procs[g].done + 1).query,
                            Submitted(g, procs[g].done + 1).args)
  /\ procs' = [procs EXCEPT ![g].pc = "stored", ![g].local = <<>>]
  /\ UNCHANGED <<mu, Shared>>

\* recordQuery, the deferred d.mu.Unlock() and the return
RecordUnlock(g) ==
  /\ procs[g].pc = "stored"
  /\ mu' = "free"
  /\ procs' = [procs EXCEPT ![g].pc = "ready", ![g].done = @ + 1]
  /\ UNCHANGED <<queries, Shared>>

\* the recordings that have returned
Returned == {gk \in Workers \X (1..MaxRun) : gk[2] <= procs[gk[1]].done}

\* Queries(), d.mu.Lock()
QueriesLock ==
  /\ procs[Reader].pc = "ready"
  /\ mutexFree(mu)
  /\ mu' = "held"
  /\ procs' = [procs EXCEPT ![Reader].pc = "locked"]
  /\ UNCHANGED <<queries, Shared>>

\* Queries(), the result is made of d.queries
QueriesCopy ==
  /\ procs[Reader].pc = "locked"
  /\ \E qs \in Queries(Normalizer, queries) :
       procs' = [procs EXCEPT ![Reader].pc = "copied", ![Reader].snapshot = qs,
                              ![Reader].seen = Cardinality(Returned)]
  /\ UNCHANGED <<queries, mu, Shared>>

\* Queries(), the deferred d.mu.Unlock() and the return
QueriesUnlock ==
  /\ procs[Reader].pc = "copied"
  /\ mu' = "free"
  /\ procs' = [procs EXCEPT ![Reader].pc = "ready"]
  /\ UNCHANGED <<queries, Shared>>

NextConcurrent ==
  \/ \E g \in Workers : RecordLock(g) \/ RecordLoad(g) \/ RecordStore(g) \/ RecordUnlock(g)
  \/ QueriesLock \/ QueriesCopy \/ QueriesUnlock

SpecConcurrent == InitConcurrent /\ [][NextConcurrent]_vars

\* the recordings whose append has been made
Appended ==
  {gk \in Workers \X (1..MaxRun) :
     gk[2] <= procs[gk[1]].done + (IF procs[gk[1]].pc = "stored" THEN 1 ELSE 0)}

\* C27: when several goroutines run queries concurrently through the same
\* capture connection, every query run is recorded exactly once (none lost,
\* none twice), and a concurrent Queries() call returns a snapshot that is a
\* prefix of the recorded list, as long as the number of recordings that had
\* completed before it.
C27_RecordedOnce ==
  /\ Len(queries) = Cardinality(Appended)
  /\ \A gk \in Workers \X (1..MaxRun) :
       Count(queries, Submitted(gk[1], gk[2])) = IF gk \in Appended THEN 1 ELSE 0
  /\ /\ procs[Reader].seen <= Len(queries)
     /\ Captured(procs[Reader].snapshot, SubSeq(queries, 1, procs[Reader].seen))

\* C27 witness: all goroutines have run their queries, interleaved, and
\* Queries() had returned a list shorter than the final one before
C27_Witness ==
  /\ \A g \in Workers : procs[g].done = MaxRun
  /\ queries[1].args[1] # queries[2].args[1]
  /\ procs[Reader].pc = "ready"
  /\ procs[Reader].seen > 0 /\ procs[Reader].seen < Len(queries)
-----------------------------------------------------------------------------
(* Goroutines that create capturers at the same time.  A goroutine is in   *)
(* procs with its position pc, the number done of capturers it has made    *)
(* and the driver name it holds between the steps of register.             *)

InitRegister ==
  /\ pc = "running"
  /\ mode = CompareStrict /\ options = DefaultOptions
  /\ expected = <<>> /\ actual = <<>> /\ cmp = NoResult
  /\ input = <<>> /\ query = <<>> /\ result = <<>> /\ result2 = <<>>
  /\ queries = <<>> /\ mu = "free" /\ driverCounter = 0 /\ drivers = <<>>
  /\ failed = <<>>
  /\ procs = [g \in Workers |-> [pc |-> "ready", done |-> 0, name |-> <<>>]]

Unregistered == <<pc, options, input, query, result, result2, expected, actual, mode, cmp,
                  queries, mu, failed>>

\* register: the name is made of the counter that atomic.AddInt64 returns
RegisterName(g) ==
  /\ procs[g].pc = "ready" /\ procs[g].done < MaxCaptures
  /\ driverCounter' = AddInt64(driverCounter, 1)
  /\ procs' = [procs EXCEPT ![g].pc = "named", ![g].name = DriverName(driverCounter')]
  /\ UNCHANGED <<drivers, Unregistered>>

\* register: sql.Register(name, d), which panics when the name is registered
RegisterDriver(g) ==
  /\ procs[g].pc = "named"
  /\ IF \E i \in DOMAIN drivers : drivers[i].name = procs[g].name
       THEN /\ procs' = [procs EXCEPT ![g].pc = "panicked"]
            /\ UNCHANGED drivers
       ELSE /\ procs' = [procs EXCEPT ![g].pc = "registered"]
            /\ drivers' = Append(drivers, [name |-> procs[g].name, opened |-> FALSE])
  /\ UNCHANGED <<driverCounter, Unregistered>>

\* newCapturer: sql.Open(driverName, "") and the return
OpenRegistered(g) ==
  /\ procs[g].pc = "registered"
  /\ drivers' = [i \in DOMAIN drivers |->
                   IF drivers[i].name = procs[g].name THEN [drivers[i] EXCEPT !.opened = TRUE]
                   ELSE drivers[i]]
  /\ procs' = [procs EXCEPT ![g].pc = "ready", ![g].done = @ + 1, ![g].name = <<>>]
  /\ UNCHANGED <<driverCounter, Unregistered>>

NextRegister ==
  \E g \in Workers : RegisterName(g) \/ RegisterDriver(g) \/ OpenRegistered(g)

SpecRegister == InitRegister /\ [][NextRegister]_vars

\* the goroutines that hold a name they have not registered yet
Naming == {g \in Workers : procs[g].pc = "named"}

\* C28: every capturer registers its driver under a name that no other
\* capturer in the process has used, also when capturers are created
\* concurrently: no two registrations collide on a name.
C28_UniqueNames ==
  /\ \A g \in Workers : procs[g].pc # "panicked"
  /\ \A i, j \in DOMAIN drivers : i # j => drivers[i].name # drivers[j].name
  /\ \A g \in Naming :
       /\ \A i \in DOMAIN drivers : drivers[i].name # procs[g].name
       /\ \A h \in Naming : h # g => procs[h].name # procs[g].name

\* C28 witness: two capturers were created at the same time and the one
\* that took its name second registered first
C28_Witness ==
  /\ Len(drivers) >= 2
  /\ drivers[1].name = DriverName(2) /\ drivers[2].name = DriverName(1)
  /\ ~drivers[1].opened /\ ~drivers[2].opened
=============================================================================
